---- MODULE Spec2Model ----
(***************************************************************************)
(* Matching and reconciliation engine of the scrobbler analyzer:           *)
(* text normalisation, track fingerprints, the listen enrichment state     *)
(* machine, the analyzer job queue and its workers.                        *)
(*                                                                         *)
(* Text is a sequence of characters, each a string; a non-ASCII character  *)
(* is written by its name ("e_acute", "emdash", "lsquo", ...).  SQL NULL / *)
(* Python None is None for text columns and NULL for integer columns.      *)
(***************************************************************************)
EXTENDS Integers, Sequences, FiniteSets, TLC

None == <<"None">>
NULL == -1

(***************************************************************************)
(* Characters                                                              *)
(***************************************************************************)
UpperChars == <<"A","B","C","D","E","F","G","H","I","J","K","L","M",
                "N","O","P","Q","R","S","T","U","V","W","X","Y","Z">>
LowerChars == <<"a","b","c","d","e","f","g","h","i","j","k","l","m",
                "n","o","p","q","r","s","t","u","v","w","x","y","z">>
DigitChars == <<"0","1","2","3","4","5","6","7","8","9">>

Range(s) == {s[i] : i \in DOMAIN s}

\* str.lower() on one character (the non-ASCII capitals the model uses).
LowerChar(c) ==
    IF c \in Range(UpperChars)
    THEN LowerChars[CHOOSE i \in DOMAIN UpperChars : UpperChars[i] = c]
    ELSE IF c = "E_acute" THEN "e_acute"
    ELSE c

\* unidecode() on one character: the ASCII transliteration.
UnidecodeChar(c) ==
    CASE c = "e_acute" -> <<"e">>
      [] c = "E_acute" -> <<"E">>
      [] c = "eszett" -> <<"s","s">>
      [] c = "lsquo" -> <<"'">>
      [] c = "rsquo" -> <<"'">>
      [] c = "ldquo" -> <<"\"">>
      [] c = "rdquo" -> <<"\"">>
      [] c = "emdash" -> <<"-","-">>
      [] c = "cjk_bei" -> <<"B","e","i"," ">>
      [] OTHER -> <<c>>

\* \s of the regular expressions and of str.strip().
IsSpace(c) == c \in {" ", "\t"}

\* \w of the regular expressions (the text is ASCII when _FEAT_RE runs).
IsWord(c) == c \in Range(LowerChars) \cup Range(UpperChars) \cup Range(DigitChars) \cup {"_"}

\* The character class of _PUNCT_RE.
IsPunct(c) == c \in {"lsquo", "rsquo", "ldquo", "rdquo", "-", "emdash", "(", ")"}

(***************************************************************************)
(* String helpers                                                          *)
(***************************************************************************)
\* a + b + c
Concat3(a, b, c) == a \o b \o c

RECURSIVE Flatten(_)
Flatten(ss) == IF ss = <<>> THEN <<>> ELSE Head(ss) \o Flatten(Tail(ss))

RECURSIVE LStrip(_)
LStrip(s) == IF s # <<>> /\ IsSpace(Head(s)) THEN LStrip(Tail(s)) ELSE s

RECURSIVE RStrip(_)
RStrip(s) ==
    IF s # <<>> /\ IsSpace(s[Len(s)]) THEN RStrip(SubSeq(s, 1, Len(s) - 1)) ELSE s

\* str.strip()
Strip(s) == RStrip(LStrip(s))

\* str.lower()
Lower(s) == [i \in DOMAIN s |-> LowerChar(s[i])]

\* unidecode(s)
Unidecode(s) == Flatten([i \in DOMAIN s |-> UnidecodeChar(s[i])])

\* t occurs in s at index i
MatchAt(s, i, t) == i + Len(t) - 1 <= Len(s) /\ SubSeq(s, i, i + Len(t) - 1) = t

\* t in s
Contains(s, t) == \E i \in 1..(Len(s) + 1) : MatchAt(s, i, t)

\* SQL  s LIKE p : "%" matches any run of characters, "_" any one character
RECURSIVE Like(_, _)
Like(s, p) ==
    IF p = <<>> THEN s = <<>>
    ELSE IF Head(p) = "%" THEN Like(s, Tail(p)) \/ (s # <<>> /\ Like(Tail(s), p))
    ELSE s # <<>> /\ (Head(p) = "_" \/ Head(p) = Head(s)) /\ Like(Tail(s), Tail(p))

\* _PUNCT_RE.sub(" ", s): every run of punctuation becomes one space
RECURSIVE SubPunct(_)
SubPunct(s) ==
    IF s = <<>> THEN <<>>
    ELSE IF IsPunct(Head(s))
         THEN IF Len(s) > 1 /\ IsPunct(s[2])
              THEN SubPunct(Tail(s))
              ELSE <<" ">> \o SubPunct(Tail(s))
         ELSE <<Head(s)>> \o SubPunct(Tail(s))

\* _WHITESPACE_RE.sub(" ", s): every run of whitespace becomes one space
RECURSIVE SubWhitespace(_)
SubWhitespace(s) ==
    IF s = <<>> THEN <<>>
    ELSE IF IsSpace(Head(s))
         THEN IF Len(s) > 1 /\ IsSpace(s[2])
              THEN SubWhitespace(Tail(s))
              ELSE <<" ">> \o SubWhitespace(Tail(s))
         ELSE <<Head(s)>> \o SubWhitespace(Tail(s))

\* Length of the match of _FEAT_RE  \bfeat(?:\.|uring)?\b  at index i, 0 if none.
FeatMatchLen(s, i) ==
    LET n == Len(s)
        wordAt(k) == k >= 1 /\ k <= n /\ IsWord(s[k])
        \* \b between index k-1 and index k
        boundary(k) == wordAt(k - 1) # wordAt(k)
    IN  IF ~(boundary(i) /\ MatchAt(s, i, <<"f","e","a","t">>)) THEN 0
        ELSE IF MatchAt(s, i + 4, <<".">>) /\ boundary(i + 5) THEN 5
        ELSE IF MatchAt(s, i + 4, <<"u","r","i","n","g">>) /\ boundary(i + 9) THEN 9
        ELSE IF boundary(i + 4) THEN 4
        ELSE 0

\* _FEAT_RE.sub("feat", s), scanning from index i
RECURSIVE SubFeat(_, _)
SubFeat(s, i) ==
    IF i > Len(s) THEN <<>>
    ELSE LET m == FeatMatchLen(s, i)
         IN  IF m > 0 THEN <<"f","e","a","t">> \o SubFeat(s, i + m)
             ELSE <<s[i]>> \o SubFeat(s, i + 1)

\* Index of the ")" that ends a match of _REMIX_RE  \(([^)]*remix[^)]*)\)
\* starting at index i, 0 if none.
RemixMatchEnd(s, i) ==
    IF ~(i <= Len(s) /\ s[i] = "(") THEN 0
    ELSE LET closers == {j \in (i + 1)..Len(s) : s[j] = ")"}
         IN  IF closers = {} THEN 0
             ELSE LET j == CHOOSE k \in closers : \A k2 \in closers : k <= k2
                  IN  IF Contains(Lower(SubSeq(s, i + 1, j - 1)), <<"r","e","m","i","x">>)
                      THEN j ELSE 0

\* _REMIX_RE.sub("", s), scanning from index i
RECURSIVE SubRemix(_, _)
SubRemix(s, i) ==
    IF i > Len(s) THEN <<>>
    ELSE LET j == RemixMatchEnd(s, i)
         IN  IF j > 0 THEN SubRemix(s, j + 1)
             ELSE <<s[i]>> \o SubRemix(s, i + 1)

(***************************************************************************)
(* analyzer.matching.normalizer                                            *)
(***************************************************************************)
\* The body of normalize_text.
normalize_text_body(value) ==
    IF value = None \/ value = <<>> THEN <<>>
    ELSE LET stripped      == Lower(Strip(value))
             ascii_only    == Unidecode(stripped)
             without_punct == SubPunct(ascii_only)
             collapsed     == Strip(SubWhitespace(without_punct))
             without_feat  == SubFeat(collapsed, 1)
             without_remix == Strip(SubRemix(without_feat, 1))
         IN  without_remix

\* The texts the library, the listens and the scanned files hold.
KnownTexts ==
    {<<"Z","e_acute">>, <<"A","b">>, <<"z","E_acute">>, <<"Q">>,
     <<"G","o">>, <<"G","o"," ","o","n">>, <<"G","O">>, <<"g","o">>, <<"Z","e">>, <<"g","_">>, None}

\* @lru_cache(maxsize=4096): the results for the texts seen before
NormalizeCache == [v \in KnownTexts |-> normalize_text_body(v)]

normalize_text(value) ==
    IF value \in KnownTexts THEN NormalizeCache[value] ELSE normalize_text_body(value)

\* normalize_tokens([token]) as make_track_uid calls it, with one token
normalize_tokens(token) ==
    IF token = None \/ token = <<>> THEN <<>> ELSE normalize_text(token)

\* str(n)
RECURSIVE IntToStr(_)
IntToStr(n) ==
    IF n < 0 THEN <<"-">> \o IntToStr(-n)
    ELSE IF n < 10 THEN <<DigitChars[n + 1]>>
    ELSE IntToStr(n \div 10) \o <<DigitChars[(n % 10) + 1]>>

\* Variant of RoundHalfEven that rounds down.
RoundDown(d, t) == d \div t

\* round(duration / tolerance): Python rounds halves to the even integer
RoundHalfEven(d, t) ==
    LET q == d \div t
        r == d % t
    IN  IF 2 * r < t THEN q
        ELSE IF 2 * r > t THEN q + 1
        ELSE IF q % 2 = 0 THEN q ELSE q + 1

duration_bucket(duration, tolerance) ==
    IF duration = NULL THEN <<"n","a">>
    ELSE LET t == IF tolerance < 1 THEN 1 ELSE tolerance
         IN  IntToStr(RoundHalfEven(duration, t) * t)

DefaultTolerance == 2

(***************************************************************************)
(* analyzer.matching.uid: the SHA-1 digest is modelled as an injective     *)
(* function of the pipe-joined text, so the joined text stands for it.     *)
(***************************************************************************)
\* Variant of make_track_uid without the duration bucket.
make_track_uid_no_duration(artist, title, album, duration) ==
    normalize_tokens(artist) \o <<"|">> \o normalize_tokens(title) \o <<"|">>
        \o normalize_tokens(album) \o <<"|">>

make_track_uid(artist, title, album, duration) ==
    normalize_tokens(artist) \o <<"|">> \o normalize_tokens(title) \o <<"|">>
        \o normalize_tokens(album) \o <<"|">> \o duration_bucket(duration, DefaultTolerance)

(***************************************************************************)
(* analyzer.services.catalog_analysis                                      *)
(***************************************************************************)
\* Variant of StrToInt that reads the digits in base 8.
RECURSIVE StrToIntOctal(_)
StrToIntOctal(s) ==
    IF s = <<>> THEN 0
    ELSE 8 * StrToIntOctal(SubSeq(s, 1, Len(s) - 1))
            + (CHOOSE d \in 0..9 : DigitChars[d + 1] = s[Len(s)])

\* int(digits) for a non-empty run of decimal digits
RECURSIVE StrToInt(_)
StrToInt(s) ==
    IF s = <<>> THEN 0
    ELSE 10 * StrToInt(SubSeq(s, 1, Len(s) - 1))
            + (CHOOSE d \in 0..9 : DigitChars[d + 1] = s[Len(s)])

\* parse_catalog_number: a CatalogNumber, or None (found = FALSE).
parse_catalog_number(value) ==
    LET NoCatalog == [found |-> FALSE, prefix |-> <<>>, number |-> 0, width |-> 0, suffix |-> <<>>]
        Kept(c) == ~IsSpace(c) /\ c # "_"
        IsAlpha(c) == c \in Range(UpperChars) \cup Range(LowerChars)
        IsDigit(c) == c \in Range(DigitChars)
        UpperChar(c) == IF c \in Range(LowerChars)
                        THEN UpperChars[CHOOSE i \in DOMAIN LowerChars : LowerChars[i] = c]
                        ELSE c
    IN  IF value = None \/ value = <<>> THEN NoCatalog
        ELSE LET cleaned == SelectSeq(Strip(value), Kept)
                 \* ^[A-Za-z]+ and \d+ are greedy: the longest runs
                 p == CHOOSE k \in 0..Len(cleaned) :
                          /\ \A i \in 1..k : IsAlpha(cleaned[i])
                          /\ k < Len(cleaned) => ~IsAlpha(cleaned[k + 1])
                 q == CHOOSE k \in 0..(Len(cleaned) - p) :
                          /\ \A i \in 1..k : IsDigit(cleaned[p + i])
                          /\ p + k < Len(cleaned) => ~IsDigit(cleaned[p + k + 1])
                 digits == SubSeq(cleaned, p + 1, p + q)
             IN  IF cleaned = <<>> \/ p = 0 \/ q = 0 THEN NoCatalog
                 ELSE [found |-> TRUE,
                       prefix |-> [i \in 1..p |-> UpperChar(cleaned[i])],
                       number |-> StrToInt(digits),
                       width |-> Len(digits),
                       suffix |-> SubSeq(cleaned, p + q + 1, Len(cleaned))]

\* Variant of format_catalog that ignores the release.
format_catalog_padded(prefix, number, width, release) ==
    LET digits == IntToStr(number)
    IN  prefix \o (IF width > Len(digits)
                   THEN [i \in 1..(width - Len(digits)) |-> "0"] \o digits
                   ELSE digits)

\* _format_catalog: the release's own catalog id if it has one, else the
\* prefix and the number, zero-filled to width.  A missing release is a
\* record with known = FALSE.
format_catalog(prefix, number, width, release) ==
    IF release.known /\ release.catalog_id # None /\ release.catalog_id # <<>>
    THEN release.catalog_id
    ELSE LET digits == IntToStr(number)
         IN  prefix \o (IF width > Len(digits)
                        THEN [i \in 1..(width - Len(digits)) |-> "0"] \o digits
                        ELSE digits)

\* Variant of CoverageBelow that also discards a segment exactly at
\* min_coverage.
CoverageNotAbove(observed_count, expected_count, min_coverage) ==
    observed_count * min_coverage[2] <= min_coverage[1] * expected_count

\* coverage < min_coverage, for coverage = observed_count / expected_count
\* and min_coverage the ratio min_coverage[1] / min_coverage[2]
CoverageBelow(observed_count, expected_count, min_coverage) ==
    observed_count * min_coverage[2] < min_coverage[1] * expected_count

\* compute_catalog_gaps: the sorted list of gaps.  observed is a sequence of
\* CatalogNumber records, releases a set of CatalogRelease records with
\* their key (prefix, number).
compute_catalog_gaps(observed, releases, min_sequence_length, max_gap, min_coverage) ==
    LET NoRelease == [known |-> FALSE, prefix |-> <<>>, number |-> 0, catalog_id |-> None,
                      release_title |-> None, release_artist |-> None, release_year |-> NULL,
                      release_date |-> None, release_url |-> None]
        \* sorted(S) for a set of integers
        Sorted(S) == [i \in 1..Cardinality(S) |->
                         CHOOSE n \in S : Cardinality({m \in S : m < n}) = i - 1]
        \* groups: the prefixes in the order of their first entry
        firsts == {i \in DOMAIN observed :
                      \A j \in 1..(i - 1) : observed[j].prefix # observed[i].prefix}
        prefixes == [k \in 1..Cardinality(firsts) |-> observed[Sorted(firsts)[k]].prefix]
        GapsOfSegment(prefix, entries, segment_numbers) ==
            LET start == segment_numbers[1]
                end == segment_numbers[Len(segment_numbers)]
                expected_count == end - start + 1
                observed_count == Len(segment_numbers)
                \* the widths in the order the Counter sees them
                seen == Flatten([k \in DOMAIN segment_numbers |->
                            LET Has(e) == e.number = segment_numbers[k]
                                es == SelectSeq(entries, Has)
                            IN  [i \in DOMAIN es |-> es[i].width]])
                Count(w) == Cardinality({i \in DOMAIN seen : seen[i] = w})
                \* most_common(1): the first key with the largest count
                default_width ==
                    IF seen = <<>> THEN Len(IntToStr(end))
                    ELSE seen[CHOOSE i \in DOMAIN seen :
                                 /\ \A j \in DOMAIN seen : Count(seen[j]) <= Count(seen[i])
                                 /\ \A j \in 1..(i - 1) : Count(seen[j]) < Count(seen[i])]
                missing == Sorted((start..end) \ {segment_numbers[k] : k \in DOMAIN segment_numbers})
                Gap(candidate) ==
                    LET found == {r \in releases : r.prefix = prefix /\ r.number = candidate}
                        release == IF found = {} THEN NoRelease ELSE CHOOSE r \in found : TRUE
                    IN  [catalog_id |-> format_catalog(prefix, candidate, default_width, release),
                         prefix |-> prefix,
                         number |-> candidate,
                         sequence_start |-> format_catalog(prefix, start, default_width, NoRelease),
                         sequence_end |-> format_catalog(prefix, end, default_width, NoRelease),
                         sequence_expected |-> expected_count,
                         sequence_observed |-> observed_count,
                         sequence_coverage |-> <<observed_count, expected_count>>,
                         release_title |-> release.release_title,
                         release_artist |-> release.release_artist,
                         release_year |-> release.release_year,
                         release_date |-> release.release_date,
                         release_url |-> release.release_url,
                         release_catalog_id |-> release.catalog_id]
            IN  IF Len(segment_numbers) < min_sequence_length
                   \/ CoverageBelow(observed_count, expected_count, min_coverage)
                THEN <<>>
                ELSE [k \in DOMAIN missing |-> Gap(missing[k])]
        GapsOfPrefix(prefix) ==
            LET Has(e) == e.prefix = prefix
                entries == SelectSeq(observed, Has)
                numbers == Sorted({entries[i].number : i \in DOMAIN entries})
                \* a segment starts at the first number and after every jump
                \* larger than max_gap, and ends before the next start
                starts == Sorted({i \in DOMAIN numbers :
                                     i = 1 \/ numbers[i] - numbers[i - 1] > max_gap})
                segments == [k \in DOMAIN starts |->
                                SubSeq(numbers, starts[k],
                                       IF k < Len(starts) THEN starts[k + 1] - 1 ELSE Len(numbers))]
                kept == LET Long(seg) == Len(seg) >= min_sequence_length
                        IN  SelectSeq(segments, Long)
            IN  IF Len(numbers) < min_sequence_length THEN <<>>
                ELSE Flatten([k \in DOMAIN kept |-> GapsOfSegment(prefix, entries, kept[k])])
        gaps == Flatten([k \in DOMAIN prefixes |-> GapsOfPrefix(prefixes[k])])
        \* sorted(gaps, key=(prefix, number)): a stable sort
        CharLess(a, b) == \E i, j \in DOMAIN UpperChars :
                              UpperChars[i] = a /\ UpperChars[j] = b /\ i < j
        StrLess(a, b) ==
            \E k \in 1..(Len(b)) :
                /\ k - 1 <= Len(a)
                /\ SubSeq(a, 1, k - 1) = SubSeq(b, 1, k - 1)
                /\ k > Len(a) \/ CharLess(a[k], b[k])
        KeyLess(g, h) == StrLess(g.prefix, h.prefix) \/ (g.prefix = h.prefix /\ g.number < h.number)
        Before(i, j) == KeyLess(gaps[i], gaps[j]) \/ (~KeyLess(gaps[j], gaps[i]) /\ i < j)
    IN  [r \in DOMAIN gaps |->
            gaps[CHOOSE i \in DOMAIN gaps :
                     Cardinality({j \in DOMAIN gaps : Before(j, i)}) = r - 1]]

(***************************************************************************)
(* Bounds of the model                                                     *)
(***************************************************************************)
MaxListens == 2      \* listens the ingestion paths create
NInitListens == 2    \* listens present before the first job runs
MaxTime == 2         \* listened_at values are 1..MaxTime
MaxLimit == 2        \* limit of an enrichment request is 1..MaxLimit
MaxJobs == 3         \* requests the analyzer API receives in one behaviour
MaxWorkers == 2      \* queue workers of the multi-worker specification
NFiles == 2          \* directory entries a library scan iterates over
MaxSearchLimit == 3  \* limit of a direct candidate search is 1..MaxSearchLimit
MaxDuration == 9     \* durations of direct duration_bucket calls reach from -MaxDuration to MaxDuration
MaxTolerance == 4    \* tolerances of direct duration_bucket calls are -2..MaxTolerance
MaxParseLen == 3     \* raw catalog numbers of direct parse calls have up to MaxParseLen characters
MaxNumber == 6       \* observed catalog numbers of a prefix are 1..MaxNumber
MaxRows == 3         \* a user has up to MaxRows stored listens to export
MaxBatch == 3        \* batch_size of an export is 1..MaxBatch

\* default of MatchService.find_candidates(limit=5)
CandidateLimit == 5

Times == 1..MaxTime

(***************************************************************************)
(* The library the model runs against.  A track row is the join the        *)
(* queries read: the track, the name of its primary artist and the title   *)
(* of its release group.  Tracks 1 and 3 are distinct rows with the same   *)
(* normalised artist, title, album and duration bucket.                    *)
(***************************************************************************)
TrackRows ==
    <<[artist |-> <<"Z","e_acute">>, title |-> <<"G","o">>, album |-> None, duration_secs |-> 200],
      [artist |-> <<"A","b">>, title |-> <<"G","o"," ","o","n">>, album |-> None, duration_secs |-> 300],
      [artist |-> <<"Z","e_acute">>, title |-> <<"G","O">>, album |-> None, duration_secs |-> 201]>>

\* Raw metadata of the listens the model ingests.
PayloadRows ==
    <<[artist |-> <<"z","E_acute">>, title |-> <<"g","o">>, album |-> None, duration_secs |-> 201],
      [artist |-> None, title |-> <<"G","o">>, album |-> None, duration_secs |-> NULL],
      [artist |-> <<"Q">>, title |-> <<"Q">>, album |-> None, duration_secs |-> 200],
      [artist |-> None, title |-> None, album |-> None, duration_secs |-> 300]>>

Payloads == Range(PayloadRows)

\* The tags of the i-th media file of the scanned directory: the first file
\* is a recording the library may hold already, the others are new.
FileTags(i) ==
    IF i = 1
    THEN [artist |-> <<"z","E_acute">>, title |-> <<"G","O">>, album |-> None, duration_secs |-> 201]
    ELSE [artist |-> <<"Q">>, title |-> <<"t">> \o IntToStr(i), album |-> None, duration_secs |-> 200]

VARIABLES
    tracks,          \* medialibrary.tracks joined with artists and release_groups: id -> row
    listens,         \* listens.listens: the sequence of rows, the id is the index
    candidates,      \* listens.listen_match_candidates: set of rows
    artist_aliases,  \* medialibrary.artist_aliases: set of rows
    title_aliases,   \* medialibrary.title_aliases: set of rows
    queue,           \* the RQ queue "scrobbler-analyzer": sequence of jobs
    worker,          \* the job each queue worker executes and where it is in it
    pool,            \* number of queue workers that are running
    call,            \* a direct call of a library function: its arguments and result
    submitted,       \* number of jobs the API has enqueued so far
    job_meta,        \* Redis: the stored meta of the job each worker executes
    media_files      \* medialibrary.media_files: the registered files

vars == <<tracks, listens, candidates, artist_aliases, title_aliases, queue, worker, pool, call,
          submitted, job_meta, media_files>>

dbvars == <<tracks, listens, candidates, artist_aliases, title_aliases>>

\* What no step of a job changes: the worker pool and the direct call.
env == <<pool, call>>

\* The queue workers that are running.
Workers == DOMAIN worker
ListenIds == DOMAIN listens
TrackIds == DOMAIN tracks

\* The uid make_track_uid gives a library row.
RowUid(row) == make_track_uid(row.artist, row.title, row.album, row.duration_secs)

\* The meta of a job nobody has written to.
NoMeta == [cancel_requested |-> FALSE, status |-> "queued", processed |-> 0]

Idle ==
    [job |-> "idle", pc |-> "idle", since |-> NULL, limit |-> 0, listen_id |-> 0,
     track_id |-> 0, learn_aliases |-> FALSE, batch |-> <<>>, idx |-> 0, hit |-> NULL,
     payload |-> {}, stored |-> {}, processed |-> 0, matched |-> 0, ambiguous |-> 0,
     unmatched |-> 0, before |-> "", replaced |-> FALSE,
     meta |-> NoMeta, registered |-> 0, cancelled |-> FALSE]

\* The worker after its job raised: the locals of the job are gone.
Failed(wk) == [Idle EXCEPT !.job = wk.job, !.pc = "failed"]

\* The "since" of a job whose kwargs hold no "since" key.
Missing == -2

Job(name, since, limit, listen_id, track_id, learn) ==
    [name |-> name, since |-> since, limit |-> limit, listen_id |-> listen_id,
     track_id |-> track_id, learn_aliases |-> learn]

PendingListen(p, t) ==
    [artist_name_raw |-> p.artist, track_title_raw |-> p.title, album_title_raw |-> p.album,
     duration_secs |-> p.duration_secs, listened_at |-> t, track_id |-> NULL,
     enrich_status |-> "pending", match_confidence |-> NULL]

\* A library row with its uid column.
TrackRow(i, uid) ==
    [artist |-> TrackRows[i].artist, title |-> TrackRows[i].title,
     album |-> TrackRows[i].album, duration_secs |-> TrackRows[i].duration_secs,
     track_uid |-> uid]

\* Libraries the analyzer can find: rows that are older than the track_uid
\* column (no uid yet), and rows that carry the uid of their metadata
\* wherever the unique index allows it.
LegacyLibrary == [i \in 1..2 |-> TrackRow(i, None)]

IndexedLibrary == [i \in 1..3 |-> TrackRow(i, IF i < 3 THEN RowUid(TrackRows[i]) ELSE None)]

InitLibraries == {LegacyLibrary, IndexedLibrary}

\* The listens that wait for enrichment: any raw metadata (the rows of
\* PayloadRows, in that order, with repetitions); the last listen was played
\* first or with the others, the others at MaxTime (so the ids are not in
\* listened_at order, and listened_at has ties).
InitListens ==
    {[i \in 1..NInitListens |->
         PendingListen(PayloadRows[k[i]], IF i = NInitListens THEN t ELSE MaxTime)] :
        k \in {f \in [1..NInitListens -> DOMAIN PayloadRows] :
                  \A i, j \in DOMAIN f : i < j => f[i] <= f[j]},
        t \in {1, MaxTime}}

InitCommon ==
    /\ tracks \in InitLibraries
    /\ candidates = {}
    /\ artist_aliases = {}
    /\ title_aliases = {}
    /\ queue = <<>>
    /\ submitted = 0
    /\ media_files = {}

\* No library function is being called directly.
NoCall == [op |-> "none"]

\* n queue workers are running, all idle.
InitPool(n) ==
    /\ pool = n
    /\ call = NoCall
    /\ worker = [w \in 1..n |-> Idle]
    /\ job_meta = [w \in 1..n |-> NoMeta]

\* One queue worker: jobs run one at a time.
Init == InitCommon /\ listens \in InitListens /\ InitPool(1)

\* The store before the first listen is ingested.
InitIngest == InitCommon /\ listens = <<>> /\ InitPool(1)

(***************************************************************************)
(* Store queries (analyzer.db.repo) as functions of the tables             *)
(***************************************************************************)
Min(a, b) == IF a < b THEN a ELSE b

\* Variant of SetMax that takes the least element.
SetMin(S) == CHOOSE x \in S : \A y \in S : x <= y

SetMax(S) == CHOOSE x \in S : \A y \in S : y <= x

\* find_track_by_uid: the id of the row with this uid, NULL if none
find_track_by_uid(t, uid) ==
    IF \E i \in DOMAIN t : t[i].track_uid = uid
    THEN CHOOSE i \in DOMAIN t : t[i].track_uid = uid
    ELSE NULL

\* MatchService.deterministic_match: the matched track id, NULL if unmatched
deterministic_match(t, artist, title, album, duration) ==
    find_track_by_uid(t, make_track_uid(artist, title, album, duration))

\* The rows the WHERE clause of search_tracks_by_metadata selects.
\* artists.name_normalized and tracks.title_normalized hold normalize_text of
\* the name and the title (LibraryService.upsert_artist / upsert_track).
SearchRows(t, artist, title) ==
    LET normalized_artist == IF artist # None /\ artist # <<>> THEN normalize_text(artist) ELSE None
        normalized_title  == IF title # None /\ title # <<>> THEN normalize_text(title) ELSE None
        by_artist == normalized_artist # None /\ normalized_artist # <<>>
        by_title  == normalized_title # None /\ normalized_title # <<>>
    IN  {i \in DOMAIN t :
            \/ ~by_artist /\ ~by_title
            \/ by_artist /\ t[i].artist # None
                         /\ Like(normalize_text(t[i].artist),
                                 <<"%">> \o normalized_artist \o <<"%">>)
            \/ by_title /\ Like(normalize_text(t[i].title), <<"%">> \o normalized_title \o <<"%">>)}

\* Variant of SearchConfidence with a tolerance of 3 seconds.
SearchConfidenceWide(row, duration) ==
    IF duration # NULL /\ row.duration_secs # NULL
       /\ row.duration_secs - duration <= 3 /\ duration - row.duration_secs <= 3
    THEN 80 ELSE 50

\* The confidence search_tracks_by_metadata gives a selected row.
SearchConfidence(row, duration) ==
    IF duration # NULL /\ row.duration_secs # NULL
       /\ row.duration_secs - duration <= 2 /\ duration - row.duration_secs <= 2
    THEN 80 ELSE 50

\* The possible results of search_tracks_by_metadata: LIMIT without ORDER BY
\* returns any limit of the selected rows.
search_tracks_by_metadata(t, artist, title, duration, limit) ==
    LET rows == SearchRows(t, artist, title)
        k == Min(limit, Cardinality(rows))
    IN  {{[track_id |-> i, confidence |-> SearchConfidence(t[i], duration)] : i \in R}
            : R \in {X \in SUBSET rows : Cardinality(X) = k}}

\* MatchService.find_candidates: the candidates it yields, one per result of
\* the repository search
find_candidates(t, artist, title, duration, limit) ==
    search_tracks_by_metadata(t, artist, title, duration, limit)

\* Variant of PendingIds without the filter on enrich_status.
PendingIdsAnyStatus(ls, since) ==
    {i \in DOMAIN ls : since # NULL => ls[i].listened_at >= since}

\* The listens fetch_pending_listens selects.
PendingIds(ls, since) ==
    {i \in DOMAIN ls :
        /\ ls[i].enrich_status \in {"pending", "unmatched"}
        /\ since # NULL => ls[i].listened_at >= since}

\* ORDER BY listened_at ASC: the orders the selected rows can come in (rows
\* with equal listened_at come in any order).
OrderedByListenedAt(ls, sel) ==
    {o \in [1..Cardinality(sel) -> sel] :
        /\ \A i, j \in DOMAIN o : i # j => o[i] # o[j]
        /\ \A i \in DOMAIN o : i > 1 => ls[o[i - 1]].listened_at <= ls[o[i]].listened_at}

\* Variant of fetch_pending_listens without the ORDER BY: the selected rows
\* come in any order.
fetch_pending_listens_unordered(ls, since, limit) ==
    LET sel == PendingIds(ls, since)
    IN  {SubSeq(o, 1, Min(limit, Len(o))) :
            o \in {f \in [1..Cardinality(sel) -> sel] :
                      \A i, j \in DOMAIN f : i # j => f[i] # f[j]}}

\* LIMIT n on the ordered rows o, where the database accepts it: a negative
\* n means no limit (SQLite).
LimitRows(o, limit) == IF limit < 0 THEN o ELSE SubSeq(o, 1, Min(limit, Len(o)))

\* The possible results of fetch_pending_listens: WHERE, ORDER BY, LIMIT.
fetch_pending_listens(ls, since, limit) ==
    {LimitRows(o, limit) : o \in OrderedByListenedAt(ls, PendingIds(ls, since))}

\* UNIQUE(user_id, track_id, listened_at) on listens; the model has one user.
\* Would giving listen l the track t collide with another row?
DedupeConflict(ls, l, t, at) ==
    \E i \in DOMAIN ls : i # l /\ ls[i].track_id = t /\ ls[i].listened_at = at

\* Variant of link_listen_listens that leaves a listen that is matched
\* already as it is.
link_listen_listens_once(ls, listen_id, track_id, status, confidence) ==
    IF listen_id \in DOMAIN ls /\ ls[listen_id].enrich_status # "matched"
    THEN [ls EXCEPT ![listen_id].track_id = track_id,
                    ![listen_id].enrich_status = status,
                    ![listen_id].match_confidence = confidence]
    ELSE ls

\* link_listen: the tables after the transaction
link_listen_listens(ls, listen_id, track_id, status, confidence) ==
    IF listen_id \in DOMAIN ls
    THEN [ls EXCEPT ![listen_id].track_id = track_id,
                    ![listen_id].enrich_status = status,
                    ![listen_id].match_confidence = confidence]
    ELSE ls

\* Variant of link_listen_candidates without the DELETE.
link_listen_candidates_kept(cs, listen_id) == cs

link_listen_candidates(cs, listen_id) == {c \in cs : c.listen_id # listen_id}

\* store_candidates: the candidates table after the transaction
store_candidates(cs, listen_id, payload) ==
    {c \in cs : c.listen_id # listen_id}
        \cup {[listen_id |-> listen_id, track_id |-> c.track_id, confidence |-> c.confidence]
                : c \in {x \in payload : x.track_id # NULL}}

\* mark_listen_status: the listens table after the transaction
mark_listen_status(ls, listen_id, status, confidence) ==
    IF listen_id \in DOMAIN ls
    THEN [ls EXCEPT ![listen_id].enrich_status = status,
                    ![listen_id].match_confidence = confidence]
    ELSE ls

\* Variant of refresh_track_uids whose UPDATE collides with the uid the row
\* itself holds.
RECURSIVE RefreshFromSelf(_, _)
RefreshFromSelf(t, i) ==
    IF i \notin DOMAIN t THEN [ok |-> TRUE, tracks |-> t]
    ELSE LET uid == make_track_uid(t[i].artist, t[i].title, t[i].album, t[i].duration_secs)
         IN  IF \E j \in DOMAIN t : t[j].track_uid = uid
             THEN [ok |-> FALSE, tracks |-> t]
             ELSE RefreshFromSelf([t EXCEPT ![i].track_uid = uid], i + 1)

refresh_track_uids_self(t) == RefreshFromSelf(t, 1)

\* refresh_track_uids rewrites the rows one by one inside one transaction;
\* the unique index on track_uid is checked at every UPDATE.  The result is
\* the table to commit, or "IntegrityError".
RECURSIVE RefreshFrom(_, _)
RefreshFrom(t, i) ==
    IF i \notin DOMAIN t THEN [ok |-> TRUE, tracks |-> t]
    ELSE LET uid == RowUid(t[i])
         IN  IF \E j \in DOMAIN t : j # i /\ t[j].track_uid = uid
             THEN [ok |-> FALSE, tracks |-> t]
             ELSE RefreshFrom([t EXCEPT ![i].track_uid = uid], i + 1)

refresh_track_uids(t) == RefreshFrom(t, 1)

(***************************************************************************)
(* Analyzer API (analyzer.api.router): every request enqueues one job      *)
(***************************************************************************)
\* The clients keep at most as many jobs outstanding (waiting or running) as
\* there are workers, and send at most MaxJobs requests.
CanEnqueue ==
    /\ Len(queue) + Cardinality({w \in Workers : worker[w].job # "idle"}) < pool
    /\ submitted < MaxJobs

\* POST /analyzer/enrich/listens
EnqueueEnrich ==
    \E since \in {NULL, MaxTime}, limit \in 1..MaxLimit :
        /\ CanEnqueue
        /\ queue' = Append(queue, Job("enrich", since, limit, 0, 0, FALSE))
        /\ submitted' = submitted + 1
        /\ UNCHANGED <<dbvars, worker, env, job_meta, media_files>>

\* POST /analyzer/reindex
EnqueueReindex ==
    /\ CanEnqueue
    /\ queue' = Append(queue, Job("reindex", NULL, 0, 0, 0, FALSE))
    /\ submitted' = submitted + 1
    /\ UNCHANGED <<dbvars, worker, env, job_meta, media_files>>

\* POST /analyzer/match/{listen_id}/confirm for a listen_id of ids
EnqueueConfirmOf(ids) ==
    \E listen_id \in ids, track_id \in TrackIds, learn \in BOOLEAN :
        /\ CanEnqueue
        /\ queue' = Append(queue, Job("confirm", NULL, 0, listen_id, track_id, learn))
        /\ submitted' = submitted + 1
        /\ UNCHANGED <<dbvars, worker, env, job_meta, media_files>>

\* POST /analyzer/match/{listen_id}/confirm, for the first listen (whose raw
\* metadata is any of Payloads) or for an id that has no row
EnqueueConfirm == EnqueueConfirmOf({1, Len(listens) + 1})

(***************************************************************************)
(* Ingestion: the two insert_listen implementations                        *)
(***************************************************************************)
\* The row the backend adapter inserts: the INSERT names neither the raw
\* metadata nor enrich_status, so the column defaults apply.
BackendListenRow(track_id, at) ==
    [artist_name_raw |-> None, track_title_raw |-> None, album_title_raw |-> None,
     duration_secs |-> 300, listened_at |-> at, track_id |-> track_id,
     enrich_status |-> "pending", match_confidence |-> NULL]

\* Variant of ScrobblerListenRow that leaves the confidence to the column
\* default.
ScrobblerListenRowNoConfidence(p, track_id, at) ==
    [artist_name_raw |-> p.artist, track_title_raw |-> p.title,
     album_title_raw |-> p.album, duration_secs |-> p.duration_secs,
     listened_at |-> at, track_id |-> track_id,
     enrich_status |-> "matched", match_confidence |-> NULL]

\* The row the scrobbler adapter inserts.
ScrobblerListenRow(p, track_id, at) ==
    [artist_name_raw |-> p.artist, track_title_raw |-> p.title,
     album_title_raw |-> p.album, duration_secs |-> p.duration_secs,
     listened_at |-> at, track_id |-> track_id,
     enrich_status |-> "matched", match_confidence |-> 100]

\* backend MariaDBAdapter.insert_listen: no raw metadata, no enrich_status
\* (the column default applies); a duplicate of (user, track, time) inserts
\* nothing.
IngestBackend ==
    \E track_id \in TrackIds, at \in Times :
        /\ Len(listens) < MaxListens
        /\ ~DedupeConflict(listens, 0, track_id, at)
        /\ listens' = Append(listens, BackendListenRow(track_id, at))
        /\ UNCHANGED <<tracks, candidates, artist_aliases, title_aliases, queue, worker, env, job_meta, media_files, submitted>>

\* scrobbler MariaDBAdapter.insert_listen(track_id, listened_at, raw
\* metadata): the row is inserted as matched with confidence 100; a
\* duplicate of (user, track, time) updates the raw metadata of the row
\* that is there.
IngestScrobbler ==
    \E p \in Payloads, track_id \in TrackIds, at \in Times :
        /\ IF DedupeConflict(listens, 0, track_id, at)
           THEN LET l == CHOOSE i \in DOMAIN listens :
                             listens[i].track_id = track_id /\ listens[i].listened_at = at
                IN  listens' = [listens EXCEPT ![l].artist_name_raw = p.artist,
                                               ![l].track_title_raw = p.title,
                                               ![l].album_title_raw = p.album,
                                               ![l].duration_secs = p.duration_secs]
           ELSE /\ Len(listens) < MaxListens
                /\ listens' = Append(listens, ScrobblerListenRow(p, track_id, at))
        /\ UNCHANGED <<tracks, candidates, artist_aliases, title_aliases, queue, worker, env, job_meta, media_files, submitted>>

(***************************************************************************)
(* Queue workers (analyzer.jobs.handlers)                                  *)
(*                                                                         *)
(* Two fields of a worker are history, not program state: "before" is the  *)
(* status the listen had when link_listen last ran for it, "replaced"      *)
(* whether that transaction deleted stored candidates.                     *)
(***************************************************************************)
\* An idle worker takes the job at the head of the queue.
StartJob(w) ==
    /\ w <= pool
    /\ worker[w].job = "idle"
    /\ queue # <<>>
    /\ LET j == Head(queue)
       IN  worker' = [worker EXCEPT ![w] =
               [Idle EXCEPT !.job = j.name,
                            !.pc = CASE j.name = "enrich" ->
                                            IF j.since = Missing THEN "failed" ELSE "fetch"
                                     [] j.name = "confirm" -> "confirm"
                                     [] j.name = "scan" -> "scan_begin"
                                     [] OTHER -> "reindex",
                            !.since = j.since, !.limit = j.limit,
                            !.listen_id = j.listen_id, !.track_id = j.track_id,
                            !.learn_aliases = j.learn_aliases]]
    /\ queue' = Tail(queue)
    /\ job_meta' = [job_meta EXCEPT ![w] = NoMeta]
    /\ UNCHANGED <<dbvars, env, media_files, submitted>>

\* The dict fetch_pending_listens returns for a row.
ListenRow(ls, i) ==
    [id |-> i, artist_name_raw |-> ls[i].artist_name_raw,
     track_title_raw |-> ls[i].track_title_raw, album_title_raw |-> ls[i].album_title_raw,
     duration_secs |-> ls[i].duration_secs]

\* The worker's state after the loop of enrich_pending finished an item:
\* the next item, or the return.
NextItem(wk) ==
    [wk EXCEPT !.pc = IF wk.idx < Len(wk.batch) THEN "match" ELSE "done",
               !.hit = NULL, !.payload = {}, !.stored = {}]

\* enrich_pending, line 26: fetch the batch
FetchPending(w) ==
    /\ worker[w].pc = "fetch"
    /\ \E b \in fetch_pending_listens(listens, worker[w].since, worker[w].limit) :
          worker' = [worker EXCEPT ![w] =
              NextItem([worker[w] EXCEPT !.batch = [i \in DOMAIN b |-> ListenRow(listens, b[i])],
                                         !.idx = 0])]
    /\ UNCHANGED <<dbvars, queue, env, job_meta, media_files, submitted>>

\* enrich_pending, lines 27-36: start the next listen, look its uid up
DeterministicMatch(w) ==
    /\ worker[w].pc = "match"
    /\ LET wk == worker[w]
           listen == wk.batch[wk.idx + 1]
           hit == deterministic_match(tracks, listen.artist_name_raw, listen.track_title_raw,
                                      listen.album_title_raw, listen.duration_secs)
       IN  worker' = [worker EXCEPT ![w] =
               [wk EXCEPT !.idx = wk.idx + 1,
                          !.processed = wk.processed + 1,
                          !.hit = hit,
                          !.before = "", !.replaced = FALSE,
                          !.matched = IF hit # NULL THEN wk.matched + 1 ELSE wk.matched,
                          !.pc = IF hit # NULL THEN "link" ELSE "search"]]
    /\ UNCHANGED <<dbvars, queue, env, job_meta, media_files, submitted>>

\* enrich_pending, lines 37-43: link the listen to the matched track
LinkListen(w) ==
    /\ worker[w].pc = "link"
    /\ LET wk == worker[w]
           listen == wk.batch[wk.idx]
       IN  IF DedupeConflict(listens, listen.id, wk.hit, listens[listen.id].listened_at)
           THEN /\ worker' = [worker EXCEPT ![w] = Failed(worker[w])]
                /\ UNCHANGED <<listens, candidates>>
           ELSE /\ listens' = link_listen_listens(listens, listen.id, wk.hit, "matched", 100)
                /\ candidates' = link_listen_candidates(candidates, listen.id)
                /\ worker' = [worker EXCEPT ![w] =
                       NextItem([wk EXCEPT !.before = listens[listen.id].enrich_status,
                                           !.replaced = \E c \in candidates : c.listen_id = listen.id])]
    /\ UNCHANGED <<tracks, artist_aliases, title_aliases, queue, env, job_meta, media_files, submitted>>

\* enrich_pending, lines 44-46: the fuzzy candidate search
FindCandidates(w) ==
    /\ worker[w].pc = "search"
    /\ LET wk == worker[w]
           listen == wk.batch[wk.idx]
       IN  \E found \in search_tracks_by_metadata(tracks, listen.artist_name_raw,
                            listen.track_title_raw, listen.duration_secs, CandidateLimit) :
               worker' = [worker EXCEPT ![w] = [wk EXCEPT !.payload = found, !.pc = "store"]]
    /\ UNCHANGED <<dbvars, queue, env, job_meta, media_files, submitted>>

\* enrich_pending, lines 47-53 and 60: replace the stored candidates
StoreCandidates(w) ==
    /\ worker[w].pc = "store"
    /\ LET wk == worker[w]
           listen == wk.batch[wk.idx]
           stored == {c \in wk.payload : c.track_id # NULL}
       IN  /\ candidates' = store_candidates(candidates, listen.id, wk.payload)
           /\ worker' = [worker EXCEPT ![w] =
                  [wk EXCEPT !.stored = stored,
                             !.ambiguous = IF stored # {} THEN wk.ambiguous + 1 ELSE wk.ambiguous,
                             !.unmatched = IF stored = {} THEN wk.unmatched + 1 ELSE wk.unmatched,
                             !.pc = "mark"]]
    /\ UNCHANGED <<tracks, listens, artist_aliases, title_aliases, queue, env, job_meta, media_files, submitted>>

\* enrich_pending, lines 54-65: record the outcome on the listen
MarkListenStatus(w) ==
    /\ worker[w].pc = "mark"
    /\ LET wk == worker[w]
           listen == wk.batch[wk.idx]
       IN  /\ listens' =
                  IF wk.stored # {}
                  THEN mark_listen_status(listens, listen.id, "ambiguous",
                                          SetMax({c.confidence : c \in wk.stored}))
                  ELSE mark_listen_status(listens, listen.id, "unmatched", NULL)
           /\ worker' = [worker EXCEPT ![w] = NextItem(wk)]
    /\ UNCHANGED <<tracks, candidates, artist_aliases, title_aliases, queue, env, job_meta, media_files, submitted>>

\* confirm_match, lines 84-89: force the listen to matched
ConfirmLink(w) ==
    /\ worker[w].pc = "confirm"
    /\ LET wk == worker[w]
       IN  IF wk.listen_id \in ListenIds
              /\ DedupeConflict(listens, wk.listen_id, wk.track_id, listens[wk.listen_id].listened_at)
           THEN /\ worker' = [worker EXCEPT ![w] = Failed(worker[w])]
                /\ UNCHANGED <<listens, candidates>>
           ELSE /\ listens' = link_listen_listens(listens, wk.listen_id, wk.track_id, "matched", 100)
                /\ candidates' = link_listen_candidates(candidates, wk.listen_id)
                /\ worker' = [worker EXCEPT
                       ![w].pc = IF wk.learn_aliases THEN "learn" ELSE "done",
                       ![w].before = IF wk.listen_id \in ListenIds
                                     THEN listens[wk.listen_id].enrich_status ELSE "",
                       ![w].replaced = \E c \in candidates : c.listen_id = wk.listen_id]
    /\ UNCHANGED <<tracks, artist_aliases, title_aliases, queue, env, job_meta, media_files, submitted>>

\* The artists row a track's primary_artist_id points to: artists are unique
\* by name_normalized, which identifies the row.
ArtistId(row) == normalize_text(row.artist)

\* learn_aliases_from_listen: the alias tables after the transaction
learn_artist_aliases(aa, ls, t, listen_id, track_id) ==
    IF listen_id \notin DOMAIN ls THEN aa
    ELSE LET artist_alias == ls[listen_id].artist_name_raw
         IN  IF track_id \in DOMAIN t /\ artist_alias # None /\ artist_alias # <<>>
                /\ ~\E a \in aa : a.alias_normalized = Lower(artist_alias)
             THEN aa \cup {[artist_id |-> ArtistId(t[track_id]),
                            alias_normalized |-> Lower(artist_alias)]}
             ELSE aa

learn_title_aliases(ta, ls, listen_id, track_id) ==
    IF listen_id \notin DOMAIN ls THEN ta
    ELSE LET title_alias == ls[listen_id].track_title_raw
         IN  IF title_alias # None /\ title_alias # <<>>
                /\ ~\E a \in ta : a.alias_normalized = Lower(title_alias)
             THEN ta \cup {[track_id |-> track_id, alias_normalized |-> Lower(title_alias)]}
             ELSE ta

\* confirm_match, lines 90-91: learn the aliases of the confirmed listen.
\* The INSERTs of learn_aliases_from_listen give no value for the column
\* alias, which is NOT NULL without a default: a database that enforces it
\* (SQLite, MariaDB in strict mode) raises on the first INSERT and nothing is
\* committed; a database that does not (MariaDB outside strict mode, a table
\* created without the column) stores the rows.
LearnAliases(w) ==
    /\ worker[w].pc = "learn"
    /\ LET wk == worker[w]
           aa == learn_artist_aliases(artist_aliases, listens, tracks, wk.listen_id, wk.track_id)
           ta == learn_title_aliases(title_aliases, listens, wk.listen_id, wk.track_id)
       IN  \/ /\ artist_aliases' = aa
              /\ title_aliases' = ta
              /\ worker' = [worker EXCEPT ![w].pc = "done"]
           \/ /\ aa # artist_aliases \/ ta # title_aliases
              /\ UNCHANGED <<artist_aliases, title_aliases>>
              /\ worker' = [worker EXCEPT ![w] = Failed(worker[w])]
    /\ UNCHANGED <<tracks, listens, candidates, queue, env, job_meta, media_files, submitted>>

\* reindex_library_job: refresh_track_uids commits every uid or, on an
\* IntegrityError, none (the session is closed without a commit).
RefreshTrackUids(w) ==
    /\ worker[w].pc = "reindex"
    /\ LET r == refresh_track_uids(tracks)
       IN  IF r.ok
           THEN /\ tracks' = r.tracks
                /\ worker' = [worker EXCEPT ![w].pc = "done",
                                             ![w].replaced = (r.tracks # tracks)]
           ELSE /\ tracks' = tracks
                /\ worker' = [worker EXCEPT ![w] = Failed(worker[w])]
    /\ UNCHANGED <<listens, candidates, artist_aliases, title_aliases, queue, env, job_meta, media_files, submitted>>

\* A store operation raises (connection lost, lock timeout, constraint):
\* its transaction is rolled back and, as neither enrich_pending nor the job
\* handlers catch it, the exception ends the job.
StoreFailure(w) ==
    /\ worker[w].pc \in {"fetch", "match", "link", "search", "store", "mark",
                         "confirm", "learn", "reindex"}
    /\ worker' = [worker EXCEPT ![w] = Failed(worker[w])]
    /\ UNCHANGED <<dbvars, queue, env, job_meta, media_files, submitted>>

\* The job has returned or raised; the worker is free again.
FinishJob(w) ==
    /\ worker[w].pc \in {"done", "failed"}
    /\ worker' = [worker EXCEPT ![w] = Idle]
    /\ UNCHANGED <<dbvars, queue, env, job_meta, media_files, submitted>>

(***************************************************************************)
(* Library scan (scan_library_job, scan_paths) and cancellation            *)
(*                                                                         *)
(* job_meta[w] is the meta hash of the job in Redis, worker[w].meta the    *)
(* job.meta dict of the worker process: refresh() copies the first to the  *)
(* second, save_meta() the second over the first.                          *)
(***************************************************************************)
\* POST /analyzer/library/scan
EnqueueScan ==
    /\ CanEnqueue
    /\ queue' = Append(queue, Job("scan", NULL, 0, 0, 0, FALSE))
    /\ submitted' = submitted + 1
    /\ UNCHANGED <<dbvars, worker, env, job_meta, media_files>>

\* request_cancel on the job a worker is running: refresh, set the flag,
\* save_meta.
RequestCancel(w) ==
    /\ worker[w].job \in {"scan", "enrich"}
    /\ worker[w].pc \notin {"done", "failed"}
    /\ ~job_meta[w].cancel_requested
    /\ job_meta' = [job_meta EXCEPT ![w].cancel_requested = TRUE, ![w].status = "cancelling"]
    /\ UNCHANGED <<dbvars, queue, worker, env, submitted, media_files>>

\* upsert_artist: the artist of this normalised name takes the display name
upsert_artist(t, name) ==
    [i \in DOMAIN t |->
        IF normalize_text(t[i].artist) = normalize_text(name)
        THEN [t[i] EXCEPT !.artist = name] ELSE t[i]]

\* _register_track_from_metadata: upsert_artist, then upsert_track keyed on
\* the uid of the tags.
register_track(t, tags) ==
    LET t1 == upsert_artist(t, tags.artist)
        uid == make_track_uid(tags.artist, tags.title, tags.album, tags.duration_secs)
        i == find_track_by_uid(t1, uid)
    IN  IF i # NULL
        THEN [t1 EXCEPT ![i].title = tags.title, ![i].duration_secs = tags.duration_secs]
        ELSE Append(t1, [artist |-> tags.artist, title |-> tags.title, album |-> tags.album,
                         duration_secs |-> tags.duration_secs, track_uid |-> uid])

\* scan_library_job before scan_paths: the first meta update
ScanBegin(w) ==
    /\ worker[w].pc = "scan_begin"
    /\ LET m == [worker[w].meta EXCEPT !.status = "running", !.processed = 0]
       IN  /\ worker' = [worker EXCEPT ![w].meta = m, ![w].pc = "scan_top"]
           /\ job_meta' = [job_meta EXCEPT ![w] = m]
    /\ UNCHANGED <<dbvars, queue, env, submitted, media_files>>

\* scan_paths, head of the loop: the directory is exhausted, or
\* should_cancel() is asked before the entry is looked at.
ScanCheckTop(w) ==
    /\ worker[w].pc = "scan_top"
    /\ worker' = [worker EXCEPT ![w] =
           IF worker[w].idx = NFiles
           THEN [@ EXCEPT !.pc = "scan_end"]
           ELSE IF job_meta[w].cancel_requested
           THEN [@ EXCEPT !.meta = job_meta[w], !.cancelled = TRUE, !.pc = "scan_end"]
           ELSE [@ EXCEPT !.meta = job_meta[w], !.idx = @ + 1, !.pc = "scan_file"]]
    /\ UNCHANGED <<dbvars, queue, env, submitted, job_meta, media_files>>

\* The entry is a directory or has no supported extension: continue.
ScanSkip(w) ==
    /\ worker[w].pc = "scan_file"
    /\ worker' = [worker EXCEPT ![w].pc = "scan_top"]
    /\ UNCHANGED <<dbvars, queue, env, submitted, job_meta, media_files>>

\* The entry is a media file: its track is upserted (a failure of that is
\* logged and swallowed) and the file registered.
ScanRegister(w) ==
    /\ worker[w].pc = "scan_file"
    /\ tracks' \in {register_track(tracks, FileTags(worker[w].idx)),
                    upsert_artist(tracks, FileTags(worker[w].idx).artist),
                    tracks}
    /\ media_files' = media_files \cup {worker[w].idx}
    /\ worker' = [worker EXCEPT ![w].registered = @ + 1, ![w].pc = "scan_progress"]
    /\ UNCHANGED <<listens, candidates, artist_aliases, title_aliases, queue, env, submitted,
                   job_meta>>

\* register_media_file raises: the handler records the failure and re-raises.
ScanFailure(w) ==
    /\ worker[w].pc = "scan_file"
    /\ job_meta' = [job_meta EXCEPT ![w] = [worker[w].meta EXCEPT !.status = "failed"]]
    /\ worker' = [worker EXCEPT ![w] = Failed(worker[w])]
    /\ UNCHANGED <<dbvars, queue, env, submitted, media_files>>

\* report_progress: job.meta.update(...) and save_meta()
ScanReportProgress(w) ==
    /\ worker[w].pc = "scan_progress"
    /\ LET m == [worker[w].meta EXCEPT !.status = "running",
                                       !.processed = worker[w].registered]
       IN  /\ worker' = [worker EXCEPT ![w].meta = m, ![w].pc = "scan_bottom"]
           /\ job_meta' = [job_meta EXCEPT ![w] = m]
    /\ UNCHANGED <<dbvars, queue, env, submitted, media_files>>

\* scan_paths, end of the loop body: should_cancel() again
ScanCheckBottom(w) ==
    /\ worker[w].pc = "scan_bottom"
    /\ worker' = [worker EXCEPT ![w] =
           IF job_meta[w].cancel_requested
           THEN [@ EXCEPT !.meta = job_meta[w], !.cancelled = TRUE, !.pc = "scan_end"]
           ELSE [@ EXCEPT !.meta = job_meta[w], !.pc = "scan_top"]]
    /\ UNCHANGED <<dbvars, queue, env, submitted, job_meta, media_files>>

\* scan_library_job after scan_paths returned: the final meta update
ScanEnd(w) ==
    /\ worker[w].pc = "scan_end"
    /\ LET m == [worker[w].meta EXCEPT
                    !.status = IF worker[w].cancelled THEN "cancelled" ELSE "finished"]
       IN  /\ worker' = [worker EXCEPT ![w].meta = m, ![w].pc = "done"]
           /\ job_meta' = [job_meta EXCEPT ![w] = m]
    /\ UNCHANGED <<dbvars, queue, env, submitted, media_files>>

Next ==
    \/ EnqueueEnrich
    \/ EnqueueReindex
    \/ EnqueueConfirm
    \/ \E w \in Workers : StartJob(w)
    \/ \E w \in Workers : FetchPending(w)
    \/ \E w \in Workers : DeterministicMatch(w)
    \/ \E w \in Workers : LinkListen(w)
    \/ \E w \in Workers : FindCandidates(w)
    \/ \E w \in Workers : StoreCandidates(w)
    \/ \E w \in Workers : MarkListenStatus(w)
    \/ \E w \in Workers : ConfirmLink(w)
    \/ \E w \in Workers : LearnAliases(w)
    \/ \E w \in Workers : RefreshTrackUids(w)
    \/ \E w \in Workers : StoreFailure(w)
    \/ \E w \in Workers : FinishJob(w)

Spec == Init /\ [][Next]_vars

\* Scans and enrichment batches with cancel requests arriving at any time.
NextCancel ==
    \/ EnqueueScan
    \/ EnqueueEnrich
    \/ \E w \in Workers : RequestCancel(w)
    \/ \E w \in Workers : StartJob(w)
    \/ \E w \in Workers : ScanBegin(w)
    \/ \E w \in Workers : ScanCheckTop(w)
    \/ \E w \in Workers : ScanSkip(w)
    \/ \E w \in Workers : ScanRegister(w)
    \/ \E w \in Workers : ScanFailure(w)
    \/ \E w \in Workers : ScanReportProgress(w)
    \/ \E w \in Workers : ScanCheckBottom(w)
    \/ \E w \in Workers : ScanEnd(w)
    \/ \E w \in Workers : FetchPending(w)
    \/ \E w \in Workers : DeterministicMatch(w)
    \/ \E w \in Workers : LinkListen(w)
    \/ \E w \in Workers : FindCandidates(w)
    \/ \E w \in Workers : StoreCandidates(w)
    \/ \E w \in Workers : MarkListenStatus(w)
    \/ \E w \in Workers : FinishJob(w)

\* The listens are plays of one recording at one time.
RepeatedListens == {ls \in InitListens : \A i \in DOMAIN ls : ls[i] = ls[1]}

InitCancel == InitCommon /\ listens \in RepeatedListens /\ InitPool(1)

SpecCancel == InitCancel /\ [][NextCancel]_vars

\* Several queue workers take jobs from the one queue.
InitWorkers == InitCommon /\ listens \in RepeatedListens /\ InitPool(MaxWorkers)

NextWorkers ==
    \/ EnqueueEnrich
    \/ EnqueueReindex
    \/ \E w \in Workers : StartJob(w)
    \/ \E w \in Workers : FetchPending(w)
    \/ \E w \in Workers : DeterministicMatch(w)
    \/ \E w \in Workers : LinkListen(w)
    \/ \E w \in Workers : FindCandidates(w)
    \/ \E w \in Workers : StoreCandidates(w)
    \/ \E w \in Workers : MarkListenStatus(w)
    \/ \E w \in Workers : RefreshTrackUids(w)
    \/ \E w \in Workers : FinishJob(w)

SpecWorkers == InitWorkers /\ [][NextWorkers]_vars

\* Confirmations arrive while enrichment batches run on other workers.
NextConfirming ==
    \/ EnqueueEnrich
    \/ EnqueueConfirm
    \/ \E w \in Workers : StartJob(w)
    \/ \E w \in Workers : FetchPending(w)
    \/ \E w \in Workers : DeterministicMatch(w)
    \/ \E w \in Workers : LinkListen(w)
    \/ \E w \in Workers : FindCandidates(w)
    \/ \E w \in Workers : StoreCandidates(w)
    \/ \E w \in Workers : MarkListenStatus(w)
    \/ \E w \in Workers : ConfirmLink(w)
    \/ \E w \in Workers : LearnAliases(w)
    \/ \E w \in Workers : FinishJob(w)

SpecConfirming == InitWorkers /\ [][NextConfirming]_vars

\* Chunked enrichment: a caller that is running nothing calls
\* enrich_pending(since=None, limit=k) again and again, with the k of its
\* first call.
RepeatEnrichPending(w) ==
    \E limit \in 1..MaxLimit :
        /\ w <= pool
        /\ worker[w].job = "idle"
        /\ call.op = "enrich_pending" => limit = call.limit
        /\ worker' = [worker EXCEPT ![w] =
               [Idle EXCEPT !.job = "enrich", !.pc = "fetch", !.since = NULL, !.limit = limit]]
        /\ call' = [op |-> "enrich_pending", limit |-> limit]
        /\ UNCHANGED <<dbvars, queue, pool, submitted, job_meta, media_files>>

NextChunked ==
    \/ \E w \in Workers : RepeatEnrichPending(w)
    \/ \E w \in Workers : FetchPending(w)
    \/ \E w \in Workers : DeterministicMatch(w)
    \/ \E w \in Workers : LinkListen(w)
    \/ \E w \in Workers : FindCandidates(w)
    \/ \E w \in Workers : StoreCandidates(w)
    \/ \E w \in Workers : MarkListenStatus(w)
    \/ \E w \in Workers : FinishJob(w)

\* Every call is made and every call runs to its end.
SpecChunked == Init /\ [][NextChunked]_vars /\ WF_vars(NextChunked)

\* Ingestion on its own: listens arrive through the two adapters.
NextIngest == IngestBackend \/ IngestScrobbler

SpecIngest == InitIngest /\ [][NextIngest]_vars

\* A store with no listens and no queue worker, for direct calls of the
\* library functions.
InitNoJobs ==
    /\ listens = <<>>
    /\ candidates = {}
    /\ artist_aliases = {}
    /\ title_aliases = {}
    /\ queue = <<>>
    /\ submitted = 0
    /\ media_files = {}
    /\ pool = 0
    /\ worker = <<>>
    /\ job_meta = <<>>

\* The library of the direct candidate searches: the three tracks and a
\* fourth without artist and without duration.
SearchLibrary ==
    [i \in 1..4 |->
        IF i <= 3 THEN TrackRow(i, None)
        ELSE [artist |-> None, title |-> <<"G","o"," ","o","n">>, album |-> None,
              duration_secs |-> NULL, track_uid |-> None]]

SearchTexts == {None, <<>>, <<"z","E_acute">>, <<"g","o">>, <<"g","_">>, <<"Q">>}

SearchDurations == {NULL, 198, 202, 203}

SearchCalls ==
    {[op |-> "find_candidates", artist |-> a, title |-> t, duration |-> d, limit |-> n,
      returned |-> FALSE, out |-> {}] :
        a \in SearchTexts, t \in SearchTexts, d \in SearchDurations, n \in 1..MaxSearchLimit}

InitSearch == InitNoJobs /\ tracks = SearchLibrary /\ call \in SearchCalls

\* A caller iterates MatchService.find_candidates to its end.
FindCandidatesCall ==
    /\ call.op = "find_candidates"
    /\ ~call.returned
    /\ \E found \in find_candidates(tracks, call.artist, call.title, call.duration, call.limit) :
          call' = [call EXCEPT !.out = found, !.returned = TRUE]
    /\ UNCHANGED <<dbvars, queue, worker, pool, submitted, job_meta, media_files>>

NextSearch == FindCandidatesCall

SpecSearch == InitSearch /\ [][NextSearch]_vars

\* Direct calls of normalize_text.  The arguments are words, words joined by
\* a featuring marker, and words followed by a parenthetical remix clause;
\* x, sep and y are the parts the argument was built from.
Words == {<<"a">>, <<"B","o">>, <<"z","E_acute">>, <<"c","j","k","_","b","e","i">>}

FeatSeparators ==
    {<<" ","f","e","a","t","."," ">>, <<" ","f","e","a","t","u","r","i","n","g"," ">>,
     <<" ","f","e","a","t"," ">>}

PlainTexts ==
    Words \cup
    {None, <<>>, <<" ","a"," "," ","b","\t">>, <<"a","-","b">>, <<"a","emdash","b">>,
     <<"lsquo","a","rsquo">>, <<"cjk_bei">>, <<"cjk_bei","a">>, <<"f","e","a","t",".","u","r","i","n","g">>,
     <<"f","e","a","t",".">>, <<"F","e","a","t","u","r","i","n","g">>, <<"d","e","f","e","a","t">>,
     <<"(","r","e","m","i","x",")">>, <<"a","(","b",")">>}

NormalizeCall(kind, x, sep, y) ==
    [op |-> "normalize_text", kind |-> kind, x |-> x, sep |-> sep, y |-> y,
     value |-> IF kind = "plain" THEN x ELSE Concat3(x, sep, y),
     returned |-> FALSE, out |-> <<>>]

NormalizeCalls ==
    {NormalizeCall("plain", x, <<>>, <<>>) : x \in PlainTexts}
    \cup {NormalizeCall("feat", x, sep, y) : x \in Words, sep \in FeatSeparators, y \in Words}
    \cup {NormalizeCall("remix", x, <<" ","(">>, r \o <<" ","R","e","m","i","x",")">>) :
              x \in Words, r \in Words}

InitText == InitNoJobs /\ tracks = <<>> /\ call \in NormalizeCalls

\* A caller calls normalize_text(value).
NormalizeTextCall ==
    /\ call.op = "normalize_text"
    /\ ~call.returned
    /\ call' = [call EXCEPT !.out = normalize_text(call.value), !.returned = TRUE]
    /\ UNCHANGED <<dbvars, queue, worker, pool, submitted, job_meta, media_files>>

NextText == NormalizeTextCall

SpecText == InitText /\ [][NextText]_vars

\* Direct calls of duration_bucket and of make_track_uid.  A duration is None
\* or an integer; the integer -1 stands for None in the model and is not
\* among the integer durations.
BucketDurations == {NULL} \cup (-MaxDuration..-2) \cup (0..MaxDuration) \cup {183}

BucketCalls ==
    {[op |-> "duration_bucket", duration |-> d, tolerance |-> t, returned |-> FALSE, out |-> <<>>] :
        d \in BucketDurations, t \in -2..MaxTolerance}

UidDurations == {NULL} \cup (198..204)

\* make_track_uid is called twice, with the same texts and two durations.
UidCalls ==
    {[op |-> "make_track_uid", artist |-> a, title |-> <<"G","o">>, album |-> None,
      d1 |-> d1, d2 |-> d2, returned |-> FALSE, out1 |-> <<>>, out2 |-> <<>>] :
        a \in {None, <<"Z","e_acute">>}, d1 \in UidDurations, d2 \in UidDurations}

\* make_track_uid is called for two tuples of metadata; '|' is a character
\* of a text like any other.
UidPairCalls ==
    LET Tuples == {[artist |-> a, title |-> t, album |-> al, duration |-> d] :
                      a \in {<<"a">>, <<"a","|","b">>}, t \in {<<"c">>, <<"b","|","c">>},
                      al \in {None, <<"c">>}, d \in {NULL, 200}}
    IN  {[op |-> "make_track_uid_pair", x |-> x, y |-> y, returned |-> FALSE,
          out1 |-> <<>>, out2 |-> <<>>] : x \in Tuples, y \in Tuples}

InitDuration ==
    InitNoJobs /\ tracks = <<>> /\ call \in BucketCalls \cup UidCalls \cup UidPairCalls

\* A caller calls duration_bucket(duration, tolerance).
DurationBucketCall ==
    /\ call.op = "duration_bucket"
    /\ ~call.returned
    /\ call' = [call EXCEPT !.out = duration_bucket(call.duration, call.tolerance),
                            !.returned = TRUE]
    /\ UNCHANGED <<dbvars, queue, worker, pool, submitted, job_meta, media_files>>

\* A caller calls make_track_uid for each of the two durations.
MakeTrackUidCall ==
    /\ call.op = "make_track_uid"
    /\ ~call.returned
    /\ call' = [call EXCEPT
                    !.out1 = make_track_uid(call.artist, call.title, call.album, call.d1),
                    !.out2 = make_track_uid(call.artist, call.title, call.album, call.d2),
                    !.returned = TRUE]
    /\ UNCHANGED <<dbvars, queue, worker, pool, submitted, job_meta, media_files>>

\* A caller calls make_track_uid for each of the two tuples.
MakeTrackUidPairCall ==
    /\ call.op = "make_track_uid_pair"
    /\ ~call.returned
    /\ call' = [call EXCEPT
                    !.out1 = make_track_uid(call.x.artist, call.x.title, call.x.album,
                                            call.x.duration),
                    !.out2 = make_track_uid(call.y.artist, call.y.title, call.y.album,
                                            call.y.duration),
                    !.returned = TRUE]
    /\ UNCHANGED <<dbvars, queue, worker, pool, submitted, job_meta, media_files>>

NextDuration == DurationBucketCall \/ MakeTrackUidCall \/ MakeTrackUidPairCall

SpecDuration == InitDuration /\ [][NextDuration]_vars

\* Enrichment requests with any limit, on each way to enrich_pending.
RequestLimits == -1..1

\* POST /analyzer/enrich/listens with any limit: EnrichListensRequest
\* answers a limit below 1 with 422 and nothing is enqueued.
PostEnrichListens ==
    \E since \in {NULL, MaxTime}, limit \in RequestLimits :
        /\ CanEnqueue
        /\ submitted' = submitted + 1
        /\ IF limit > 0
           THEN /\ queue' = Append(queue, Job("enrich", since, limit, 0, 0, FALSE))
                /\ call' = [op |-> "post_enrich_listens", limit |-> limit, status |-> 200]
           ELSE /\ queue' = queue
                /\ call' = [op |-> "post_enrich_listens", limit |-> limit, status |-> 422]
        /\ UNCHANGED <<dbvars, worker, pool, job_meta, media_files>>

\* EnrichmentQueueService.queue_enrich(since, limit): the job is enqueued with
\* the limit as given, and without "since" if since is None.
QueueEnrich ==
    \E since \in {NULL, MaxTime}, limit \in RequestLimits :
        /\ CanEnqueue
        /\ submitted' = submitted + 1
        /\ queue' = Append(queue, Job("enrich", IF since = NULL THEN Missing ELSE since,
                                      limit, 0, 0, FALSE))
        /\ call' = [op |-> "queue_enrich", limit |-> limit]
        /\ UNCHANGED <<dbvars, worker, pool, job_meta, media_files>>

\* A caller that is running nothing calls enrich_pending(since, limit) itself.
EnrichPendingCall(w) ==
    \E since \in {NULL, MaxTime}, limit \in RequestLimits :
        /\ w <= pool
        /\ worker[w].job = "idle"
        /\ queue = <<>>
        /\ submitted < MaxJobs
        /\ submitted' = submitted + 1
        /\ worker' = [worker EXCEPT ![w] =
               [Idle EXCEPT !.job = "enrich", !.pc = "fetch", !.since = since, !.limit = limit]]
        /\ call' = [op |-> "enrich_pending", limit |-> limit]
        /\ UNCHANGED <<dbvars, queue, pool, job_meta, media_files>>

\* fetch_pending_listens with a negative limit on a database that refuses a
\* negative LIMIT (MariaDB): the statement raises.
FetchPendingRefused(w) ==
    /\ worker[w].pc = "fetch"
    /\ worker[w].limit < 0
    /\ worker' = [worker EXCEPT ![w] = Failed(worker[w])]
    /\ UNCHANGED <<dbvars, queue, env, job_meta, media_files, submitted>>

InitLimit == InitCommon /\ listens \in InitListens /\ InitPool(1)

NextLimit ==
    \/ PostEnrichListens
    \/ QueueEnrich
    \/ \E w \in Workers : EnrichPendingCall(w)
    \/ \E w \in Workers : StartJob(w)
    \/ \E w \in Workers : FetchPending(w)
    \/ \E w \in Workers : FetchPendingRefused(w)
    \/ \E w \in Workers : DeterministicMatch(w)
    \/ \E w \in Workers : LinkListen(w)
    \/ \E w \in Workers : FindCandidates(w)
    \/ \E w \in Workers : StoreCandidates(w)
    \/ \E w \in Workers : MarkListenStatus(w)
    \/ \E w \in Workers : FinishJob(w)

SpecLimit == InitLimit /\ [][NextLimit]_vars

\* Direct calls of parse_catalog_number and compute_catalog_gaps.
CatalogCalls ==
    LET ParseChars == {"e", "F", "0", "7", " ", "_", "-", "e_acute"}
        Raw == {None, <<" ","E","F","R"," ","0","4","7","-","D","J"," ">>}
                   \cup UNION {[1..n -> ParseChars] : n \in 0..MaxParseLen}
        \* The observed catalog numbers: any numbers of prefix A, in ascending
        \* or descending order, with widths 1 or 2 by a pattern ("both": every
        \* number is held twice, once with each width), after B1, B2, B4 or not.
        Entry(pf, n, w) == [prefix |-> pf, number |-> n, width |-> w]
        Reverse(q) == [i \in DOMAIN q |-> q[Len(q) + 1 - i]]
        Asc(S) == [i \in 1..Cardinality(S) |->
                      CHOOSE n \in S : Cardinality({m \in S : m < n}) = i - 1]
        EntriesOf(n, pattern) ==
            CASE pattern = "one" -> <<Entry(<<"A">>, n, 1)>>
              [] pattern = "two" -> <<Entry(<<"A">>, n, 2)>>
              [] pattern = "odd" -> <<Entry(<<"A">>, n, IF n % 2 = 1 THEN 2 ELSE 1)>>
              [] pattern = "even" -> <<Entry(<<"A">>, n, IF n % 2 = 0 THEN 2 ELSE 1)>>
              [] OTHER -> <<Entry(<<"A">>, n, 1), Entry(<<"A">>, n, 2)>>
        Observed(S, pattern, descending, withB) ==
            LET a == Flatten([i \in 1..Cardinality(S) |-> EntriesOf(Asc(S)[i], pattern)])
            IN  (IF withB THEN <<Entry(<<"B">>, 1, 1), Entry(<<"B">>, 2, 1), Entry(<<"B">>, 4, 1)>>
                 ELSE <<>>) \o (IF descending THEN Reverse(a) ELSE a)
        \* The known releases: none, or (with the A entries alone, ascending)
        \* one for (A, 3), with or without a catalog id of its own.
        Release(id) == [known |-> TRUE, prefix |-> <<"A">>, number |-> 3, catalog_id |-> id,
                        release_title |-> <<"R">>, release_artist |-> <<"D">>,
                        release_year |-> 2023, release_date |-> <<"2023-09-01">>,
                        release_url |-> <<"u">>]
        Releases == {{}, {Release(<<"A","3">>)}, {Release(None)}}
    IN  {[op |-> "parse_catalog_number", value |-> v, returned |-> FALSE,
          out |-> parse_catalog_number(None)] : v \in Raw}
        \cup
        {[op |-> "compute_catalog_gaps",
          observed |-> Observed(S, pattern, descending /\ rs = {}, withB /\ rs = {}),
          releases |-> rs, min_sequence_length |-> m, max_gap |-> g, min_coverage |-> c,
          returned |-> FALSE, out |-> <<>>] :
            S \in SUBSET (1..MaxNumber), pattern \in {"one", "two", "odd", "even", "both"},
            descending \in BOOLEAN, withB \in BOOLEAN, rs \in Releases,
            m \in {2, 3}, g \in {1, 2}, c \in {<<6, 10>>, <<3, 4>>}}

InitCatalog == InitNoJobs /\ tracks = <<>> /\ call \in CatalogCalls

\* A caller calls parse_catalog_number(value).
ParseCatalogNumberCall ==
    /\ call.op = "parse_catalog_number"
    /\ ~call.returned
    /\ call' = [call EXCEPT !.out = parse_catalog_number(call.value), !.returned = TRUE]
    /\ UNCHANGED <<dbvars, queue, worker, pool, submitted, job_meta, media_files>>

\* A caller calls compute_catalog_gaps(observed, releases, ...).
ComputeCatalogGapsCall ==
    /\ call.op = "compute_catalog_gaps"
    /\ ~call.returned
    /\ call' = [call EXCEPT
                    !.out = compute_catalog_gaps(call.observed, call.releases,
                                call.min_sequence_length, call.max_gap, call.min_coverage),
                    !.returned = TRUE]
    /\ UNCHANGED <<dbvars, queue, worker, pool, submitted, job_meta, media_files>>

NextCatalog == ParseCatalogNumberCall \/ ComputeCatalogGapsCall

SpecCatalog == InitCatalog /\ [][NextCatalog]_vars

\* ListenBrainz export.  The user's stored listens are rows in the order
\* fetch_listens_for_export returns them; a row has a track title and an
\* artist name, or lacks one of them.  call holds the arguments and the
\* local variables of one export_user call, the rows fetched so far and the
\* submissions posted (what adapter.calls and the endpoint have seen).
InitExport ==
    /\ InitNoJobs
    /\ tracks = <<>>
    /\ call \in [op : {"export_user"},
                 rows : UNION {[1..n -> [title : {None, <<"T">>}, artist : {None, <<"A">>}]]
                                  : n \in 0..MaxRows},
                 token : {<<>>, <<"t">>},
                 batch_size : 1..MaxBatch,
                 pc : {"start"},
                 exported : {0}, skipped : {0}, batches : {0}, offset : {0},
                 fetched : {0}, submissions : {0}]

\* export_user up to the loop: an empty token is refused, else the counters
\* start at 0.
ExportUser ==
    /\ call.op = "export_user"
    /\ call.pc = "start"
    /\ call' = [call EXCEPT !.pc = IF call.token = <<>> THEN "raised" ELSE "loop"]
    /\ UNCHANGED <<dbvars, queue, worker, pool, submitted, job_meta, media_files>>

\* One iteration of the loop of export_user: fetch up to batch_size rows at
\* offset, skip the rows without metadata, post the others (the endpoint
\* answers with success or with an error status), count, and stop after a
\* short batch.
ExportBatch ==
    /\ call.op = "export_user"
    /\ call.pc = "loop"
    /\ LET rows == SubSeq(call.rows, call.offset + 1,
                          Min(call.offset + call.batch_size, Len(call.rows)))
           to_track_metadata(row) == row.title # None /\ row.artist # None
           payload == SelectSeq(rows, to_track_metadata)
           skipped == call.skipped + (Len(rows) - Len(payload))
       IN  \/ /\ rows = <<>>
              /\ call' = [call EXCEPT !.pc = "returned"]
           \/ /\ rows # <<>>
              /\ payload # <<>>
              /\ \E ok \in BOOLEAN :
                    call' = IF ok
                            THEN [call EXCEPT
                                      !.fetched = @ + Len(rows),
                                      !.submissions = @ + 1,
                                      !.skipped = skipped,
                                      !.exported = @ + Len(payload),
                                      !.batches = @ + 1,
                                      !.pc = IF Len(rows) < call.batch_size
                                             THEN "returned" ELSE "loop",
                                      !.offset = IF Len(rows) < call.batch_size
                                                 THEN @ ELSE @ + call.batch_size]
                            ELSE [call EXCEPT
                                      !.fetched = @ + Len(rows),
                                      !.submissions = @ + 1,
                                      !.skipped = skipped,
                                      !.pc = "raised"]
           \/ /\ rows # <<>>
              /\ payload = <<>>
              /\ call' = [call EXCEPT
                              !.fetched = @ + Len(rows),
                              !.skipped = skipped + Len(rows),
                              !.pc = IF Len(rows) < call.batch_size
                                     THEN "returned" ELSE "loop",
                              !.offset = IF Len(rows) < call.batch_size
                                         THEN @ ELSE @ + call.batch_size]
    /\ UNCHANGED <<dbvars, queue, worker, pool, submitted, job_meta, media_files>>

NextExport == ExportUser \/ ExportBatch

SpecExport == InitExport /\ [][NextExport]_vars

\* Confirmations with alias learning, on a store that loses no connection:
\* two listens of one recording whose raw artist strings differ in case and
\* accent only.
AliasListens ==
    <<PendingListen(PayloadRows[1], 1),
      PendingListen([artist |-> <<"Z","e">>, title |-> <<"G","O">>, album |-> None,
                     duration_secs |-> 200], MaxTime)>>

InitAlias == InitCommon /\ listens = AliasListens /\ InitPool(1)

NextAlias ==
    \/ EnqueueConfirmOf(DOMAIN listens)
    \/ \E w \in Workers : StartJob(w)
    \/ \E w \in Workers : ConfirmLink(w)
    \/ \E w \in Workers : LearnAliases(w)
    \/ \E w \in Workers : FinishJob(w)

SpecAlias == InitAlias /\ [][NextAlias]_vars

(***************************************************************************)
(* Properties                                                              *)
(***************************************************************************)
\* The stored candidates of a listen, as (track_id, confidence) pairs.
CandidatesOf(cs, l) ==
    {[track_id |-> c.track_id, confidence |-> c.confidence] : c \in {x \in cs : x.listen_id = l}}

\* The number of listens of its batch an enrichment job has finished.
Completed(wk) ==
    IF wk.pc \in {"match", "done"} THEN wk.idx
    ELSE IF wk.pc \in {"link", "search", "store", "mark"} THEN wk.idx - 1
    ELSE 0

\* The track whose uid is the fingerprint of a fetched listen, NULL if none.
HitOf(row) ==
    deterministic_match(tracks, row.artist_name_raw, row.track_title_raw,
                        row.album_title_raw, row.duration_secs)

\* C1: a listen that enrich_pending has processed and whose fingerprint is
\* the track_uid of a library track is linked to that track, is matched
\* with confidence 100 and has no stored candidates.
C1_ExactHitIsLinked ==
    \A w \in Workers :
        worker[w].job = "enrich" =>
            \A j \in 1..Completed(worker[w]) :
                LET row == worker[w].batch[j]
                IN  HitOf(row) # NULL =>
                        /\ listens[row.id].track_id = HitOf(row)
                        /\ listens[row.id].enrich_status = "matched"
                        /\ listens[row.id].match_confidence = 100
                        /\ CandidatesOf(candidates, row.id) = {}

\* C1 witness: a batch has just linked a listen by its fingerprint and
\* deleted the candidates an earlier run had stored for it.
C1_Witness ==
    \E w \in Workers :
        /\ worker[w].job = "enrich"
        /\ Completed(worker[w]) >= 1
        /\ worker[w].replaced
        /\ HitOf(worker[w].batch[Completed(worker[w])]) # NULL

\* C2: a listen that enrich_pending has processed without an exact uid hit
\* has exactly the candidates of the fuzzy search stored; with candidates it
\* is ambiguous with the maximum candidate confidence, without it is
\* unmatched with a null confidence.
C2_FuzzyOutcome ==
    \A w \in Workers :
        worker[w].job = "enrich" =>
            \A j \in 1..Completed(worker[w]) :
                LET row == worker[w].batch[j]
                    l == listens[row.id]
                IN  HitOf(row) = NULL =>
                        \E found \in search_tracks_by_metadata(tracks, row.artist_name_raw,
                                         row.track_title_raw, row.duration_secs, CandidateLimit) :
                            /\ CandidatesOf(candidates, row.id) = found
                            /\ found # {} =>
                                   /\ l.enrich_status = "ambiguous"
                                   /\ l.match_confidence \in {c.confidence : c \in found}
                                   /\ \A c \in found : c.confidence <= l.match_confidence
                            /\ found = {} =>
                                   /\ l.enrich_status = "unmatched"
                                   /\ l.match_confidence = NULL

\* C2 witness: a batch has finished a listen as ambiguous with candidates of
\* both confidences, and another as unmatched.
C2_Witness ==
    \E w \in Workers :
        /\ worker[w].job = "enrich"
        /\ Completed(worker[w]) = 2
        /\ \E j \in 1..2 :
              /\ listens[worker[w].batch[j].id].enrich_status = "ambiguous"
              /\ {c.confidence : c \in CandidatesOf(candidates, worker[w].batch[j].id)} = {50, 80}
        /\ \E j \in 1..2 : listens[worker[w].batch[j].id].enrich_status = "unmatched"

\* A step of an enrichment job of worker w.
EnrichStep(w) == worker[w].job = "enrich" /\ worker'[w] # worker[w]

\* C3: a step of an enrichment job changes neither the row nor the stored
\* candidates of a listen that is matched or ambiguous.
C3_EnrichOnlyPendingUnmatched ==
    [][\A w \in Workers : EnrichStep(w) =>
          \A l \in DOMAIN listens :
              listens[l].enrich_status \in {"matched", "ambiguous"} =>
                  /\ listens'[l] = listens[l]
                  /\ CandidatesOf(candidates', l) = CandidatesOf(candidates, l)]_vars

\* C3 witness: an enrichment batch is writing to one listen while another
\* listen, which the batch did not fetch, is ambiguous with stored candidates.
C3_Witness ==
    \E w \in Workers :
        /\ worker[w].job = "enrich"
        /\ worker[w].pc \in {"link", "store", "mark"}
        /\ \E l \in DOMAIN listens :
              /\ \A j \in 1..Len(worker[w].batch) : worker[w].batch[j].id # l
              /\ listens[l].enrich_status = "ambiguous"
              /\ CandidatesOf(candidates, l) # {}

\* C4: once link_listen of confirm_match has committed for an existing
\* listen, and until the call ends, the listen is matched with confidence
\* 100, linked to track_id and without stored candidates; the steps of the
\* call change the status of no other listen.
C4_ConfirmForcesMatched ==
    [][\A w \in Workers :
          (/\ worker[w].job = "confirm"
           /\ worker'[w] # worker[w]
           /\ worker'[w].pc \in {"learn", "done"}
           /\ worker[w].listen_id \in DOMAIN listens) =>
              /\ listens'[worker[w].listen_id].enrich_status = "matched"
              /\ listens'[worker[w].listen_id].match_confidence = 100
              /\ listens'[worker[w].listen_id].track_id = worker[w].track_id
              /\ CandidatesOf(candidates', worker[w].listen_id) = {}
              /\ \A l \in DOMAIN listens :
                     l # worker[w].listen_id =>
                         listens'[l].enrich_status = listens[l].enrich_status]_vars

\* C4 witness: confirm_match has returned for a listen that was ambiguous,
\* with stored candidates, and is now linked to the confirmed track.
C4_Witness ==
    \E w \in Workers :
        /\ worker[w].job = "confirm"
        /\ worker[w].pc = "done"
        /\ worker[w].before = "ambiguous"
        /\ worker[w].replaced
        /\ worker[w].listen_id \in DOMAIN listens
        /\ listens[worker[w].listen_id].track_id = worker[w].track_id

\* TRUE iff the fetched rows are in ascending order of their listens'
\* listened_at.
Ascending(batch) ==
    \A i, j \in 1..Len(batch) :
        i < j => listens[batch[i].id].listened_at <= listens[batch[j].id].listened_at

\* The counters of a batch: processed is at most limit, and a finished batch
\* has processed = matched + ambiguous + unmatched = the size of the batch.
BatchCounts(wk) ==
    /\ wk.processed <= wk.limit
    /\ wk.pc = "done" =>
           /\ wk.processed = Len(wk.batch)
           /\ wk.processed = wk.matched + wk.ambiguous + wk.unmatched

\* C5: the batch enrich_pending fetches holds min(limit, n) distinct eligible
\* listens (status pending or unmatched, listened_at >= since when since is
\* given) in ascending listened_at order, and no eligible listen left out is
\* earlier than a fetched one; processed never exceeds limit, and when the
\* batch is done processed equals matched + ambiguous + unmatched.
C5_FetchEarliestEligible ==
    [][\A w \in Workers :
          /\ (worker[w].pc = "fetch" /\ worker'[w].pc \in {"match", "done"}) =>
                 LET wk == worker'[w]
                     eligible == PendingIds(listens, wk.since)
                     fetched == {wk.batch[j].id : j \in 1..Len(wk.batch)}
                 IN  /\ Len(wk.batch) = Min(wk.limit, Cardinality(eligible))
                     /\ Cardinality(fetched) = Len(wk.batch)
                     /\ fetched \subseteq eligible
                     /\ Ascending(wk.batch)
                     /\ \A l \in eligible \ fetched : \A f \in fetched :
                            listens[l].listened_at >= listens[f].listened_at
          /\ worker'[w].job = "enrich" => BatchCounts(worker'[w])]_vars

\* C5 witness: a batch of limit 1 is done after fetching the earlier of two
\* eligible listens and leaving the later one.
C5_Witness ==
    \E w \in Workers :
        /\ worker[w].job = "enrich"
        /\ worker[w].pc = "done"
        /\ worker[w].limit = 1
        /\ worker[w].processed = 1
        /\ \E l \in DOMAIN listens :
              /\ listens[l].enrich_status = "pending"
              /\ listens[l].listened_at > listens[worker[w].batch[1].id].listened_at

C7_FailureKeepsBatch ==
    [][\A w \in Workers :
          worker[w].job = "enrich" => worker'[w].pc # "failed"]_vars

\* C10: when reindex has completed, a second run of refresh_track_uids raises
\* nothing and leaves every track row as it is.
C10_ReindexIdempotent ==
    \A w \in Workers :
        (worker[w].job = "reindex" /\ worker[w].pc = "done") =>
            /\ refresh_track_uids(tracks).ok
            /\ refresh_track_uids(tracks).tracks = tracks

\* C10 witness: reindex has completed on a library whose rows had no uid, and
\* every row now carries the uid of its metadata.
C10_Witness ==
    \E w \in Workers :
        /\ worker[w].job = "reindex"
        /\ worker[w].pc = "done"
        /\ worker[w].replaced
        /\ \A t \in TrackIds : tracks[t].track_uid = RowUid(tracks[t])

\* C8, as stated: once a cancel request for a running scan or enrichment
\* batch is visible in the job's meta, the batch starts no further item.
C8_CancelStartsNoItem ==
    [][\A w \in Workers :
          (/\ worker[w].job \in {"scan", "enrich"}
           /\ job_meta[w].cancel_requested) =>
              worker'[w].idx <= worker[w].idx]_vars

\* C9, as stated: a reindex job and an enrichment job never execute at the
\* same time.
C9_ReindexExcludesEnrich ==
    \A w1, w2 \in Workers :
        ~(/\ worker[w1].job = "reindex" /\ worker[w1].pc = "reindex"
          /\ worker[w2].job = "enrich" /\ worker[w2].pc \notin {"done", "failed"})

\* C11, as stated: a confirm_match with learn_aliases=True does not fail, and
\* when it has returned there is exactly one artist alias and exactly one
\* title alias for the raw strings of the listen (created by the first call,
\* left alone by the second).
C11_LearnAliasesOnce ==
    [][\A w \in Workers :
          (worker[w].pc = "learn" /\ worker'[w] # worker[w]) =>
              LET l == listens[worker[w].listen_id]
              IN  /\ worker'[w].pc = "done"
                  /\ Cardinality({a \in artist_aliases' :
                          a.alias_normalized = Lower(l.artist_name_raw)}) = 1
                  /\ Cardinality({a \in title_aliases' :
                          a.alias_normalized = Lower(l.track_title_raw)}) = 1]_vars

\* C12, as stated: the key of every stored alias is normalize_text of the raw
\* string of a listen, and no entity has two alias rows whose keys have the
\* same normalize_text.
C12_AliasKeysNormalized ==
    /\ \A a \in artist_aliases :
           /\ \E l \in DOMAIN listens :
                  a.alias_normalized = normalize_text(listens[l].artist_name_raw)
           /\ \A b \in artist_aliases :
                  (b.artist_id = a.artist_id
                   /\ normalize_text(b.alias_normalized) = normalize_text(a.alias_normalized))
                      => b = a
    /\ \A a \in title_aliases :
           /\ \E l \in DOMAIN listens :
                  a.alias_normalized = normalize_text(listens[l].track_title_raw)
           /\ \A b \in title_aliases :
                  (b.track_id = a.track_id
                   /\ normalize_text(b.alias_normalized) = normalize_text(a.alias_normalized))
                      => b = a

\* C13: find_candidates returns at most limit candidates, all of them tracks
\* of the library; a candidate has confidence 80 when a duration was given,
\* the track's duration is known and the two differ by at most 2 seconds, and
\* confidence 50 otherwise; when no row is selected the result is empty.
C13_CandidatesWithinLimit ==
    (call.op = "find_candidates" /\ call.returned) =>
        /\ Cardinality(call.out) <= call.limit
        /\ \A c \in call.out :
               /\ c.track_id \in DOMAIN tracks
               /\ LET known == call.duration # NULL /\ tracks[c.track_id].duration_secs # NULL
                      diff == tracks[c.track_id].duration_secs - call.duration
                  IN  c.confidence = IF known /\ diff \in -2..2 THEN 80 ELSE 50
        /\ SearchRows(tracks, call.artist, call.title) = {} => call.out = {}

\* C13 witness: a search that selected more rows than limit has returned
\* limit candidates, one of confidence 80 and one of confidence 50.
C13_Witness ==
    /\ call.op = "find_candidates"
    /\ call.returned
    /\ Cardinality(call.out) = call.limit
    /\ Cardinality(SearchRows(tracks, call.artist, call.title)) > call.limit
    /\ {c.confidence : c \in call.out} = {50, 80}

\* C14, as stated: every candidate find_candidates returns is a track whose
\* normalised artist name contains the normalised artist of the call, or
\* whose normalised title contains the normalised title of the call (so a
\* call whose artist and title are both empty returns nothing).
C14_CandidatesMatchedText ==
    (call.op = "find_candidates" /\ call.returned) =>
        \A c \in call.out :
            LET row == tracks[c.track_id]
                na == normalize_text(call.artist)
                nt == normalize_text(call.title)
            IN  \/ na # <<>> /\ row.artist # None /\ Contains(normalize_text(row.artist), na)
                \/ nt # <<>> /\ Contains(normalize_text(row.title), nt)

\* C15, as stated: normalize_text applied to its own result returns that
\* result.
C15_NormalizeIdempotent ==
    (call.op = "normalize_text" /\ call.returned) => normalize_text(call.out) = call.out

\* C16, as stated: normalize_text of x joined to y by " feat. ", by
\* " featuring " or by " feat " is normalize_text of x + " feat " + y.
C16_FeatCanonical ==
    (call.op = "normalize_text" /\ call.returned /\ call.kind = "feat") =>
        call.out = normalize_text(Concat3(call.x, <<" ","f","e","a","t"," ">>, call.y))

\* C17, as stated: normalize_text of x + " (" + r + " Remix)" is
\* normalize_text of x.
C17_RemixClauseStripped ==
    (call.op = "normalize_text" /\ call.returned /\ call.kind = "remix") =>
        call.out = normalize_text(call.x)

\* C18, as stated: two uids of the same texts whose durations differ by at
\* most 2 are equal.
C18_UidStableWithinTolerance ==
    (call.op = "make_track_uid" /\ call.returned
     /\ call.d1 # NULL /\ call.d2 # NULL /\ call.d1 - call.d2 \in -2..2) =>
        call.out1 = call.out2

\* C18, amended: two uids of the same texts are equal exactly when the
\* durations are both None, are equal, or lie in the same bucket 4k-1..4k+1
\* (the durations that round to the multiple 4k of the tolerance 2; 4k+2 is
\* a bucket of its own).
C18_UidStableWithinBucket ==
    (call.op = "make_track_uid" /\ call.returned) =>
        (call.out1 = call.out2 <=>
            \/ call.d1 = call.d2
            \/ /\ call.d1 # NULL
               /\ call.d2 # NULL
               /\ \E k \in 0..((call.d1 + 1) \div 4) :
                      {call.d1, call.d2} \subseteq (4 * k - 1)..(4 * k + 1))

\* C18 witness: the uids for the durations 200 and 201 have been computed
\* and are equal.
C18_Witness ==
    /\ call.op = "make_track_uid"
    /\ call.returned
    /\ call.d1 = 200
    /\ call.d2 = 201
    /\ call.out1 = call.out2

\* C19: duration_bucket of None is "na"; of an integer d, with the tolerance
\* clamped to t >= 1, it is the decimal string of a multiple of t at
\* distance at most t/2 from d.
C19_BucketNearestMultiple ==
    (call.op = "duration_bucket" /\ call.returned) =>
        IF call.duration = NULL THEN call.out = <<"n","a">>
        ELSE LET d == call.duration
                 t == IF call.tolerance < 1 THEN 1 ELSE call.tolerance
             IN  \E m \in (-MaxDuration - 200)..(MaxDuration + 200) :
                     /\ call.out = IntToStr(m * t)
                     /\ 2 * (m * t - d) <= t
                     /\ 2 * (d - m * t) <= t

\* C19 witness: duration_bucket(183, 2) has returned "184".
C19_Witness ==
    /\ call.op = "duration_bucket"
    /\ call.returned
    /\ call.duration = 183
    /\ call.tolerance = 2
    /\ call.out = <<"1","8","4">>

\* C20: an enrichment request with a limit of zero or less is rejected with
\* an error before a listen is fetched or modified, on every path: the API
\* answers it with an error, and a job or a direct call of enrich_pending
\* with such a limit never gets past its start other than by raising.
C20_InvalidLimitRejected ==
    /\ (call.op = "post_enrich_listens" /\ call.limit < 1) => call.status = 422
    /\ \A w \in Workers :
           (worker[w].job = "enrich" /\ worker[w].limit < 1) =>
               worker[w].pc \in {"fetch", "failed"}

\* C26: a cancel request written to the meta of a scan job that still has
\* entries left is never lost: no step of the running job erases the flag,
\* and when the job ends its status is 'cancelled'.
C26_CancelNeverLost ==
    [][\A w \in Workers :
          (/\ worker[w].job = "scan"
           /\ worker[w].pc \notin {"done", "failed"}
           /\ worker[w].idx < NFiles
           /\ job_meta[w].cancel_requested
           /\ worker'[w].pc # "failed") =>
              /\ job_meta'[w].cancel_requested
              /\ worker'[w].pc = "done" => job_meta'[w].status = "cancelled"]_vars

\* C25: a user confirmation is never overwritten by a running enrichment
\* batch: while confirm_match has returned for a listen that is matched with
\* confidence 100 and linked to the confirmed track, no step of an
\* enrichment batch changes the listen or stores candidates for it.
C25_ConfirmationKept ==
    [][\A w \in Workers, c \in Workers, l \in DOMAIN listens :
          (/\ worker[w].job = "enrich"
           /\ worker'[w] # worker[w]
           /\ worker[c].job = "confirm"
           /\ worker[c].pc = "done"
           /\ worker[c].listen_id = l
           /\ listens[l].enrich_status = "matched"
           /\ listens[l].match_confidence = 100
           /\ listens[l].track_id = worker[c].track_id) =>
              /\ listens'[l] = listens[l]
              /\ CandidatesOf(candidates', l) = {}]_vars

\* C28: whenever no enrich_pending or confirm_match call is in progress,
\* a matched listen has confidence 100, a linked track and no stored
\* candidates; an ambiguous listen has stored candidates and the largest of
\* their confidences (50 or 80); an unmatched listen has a null confidence
\* and no stored candidates; a pending listen has no stored candidates.
C28_QuiescentListens ==
    (\A w \in Workers : worker[w].job = "idle") =>
        \A l \in DOMAIN listens :
            LET x == listens[l]
                cs == CandidatesOf(candidates, l)
            IN  /\ x.enrich_status = "matched" =>
                       x.match_confidence = 100 /\ x.track_id # NULL /\ cs = {}
                /\ x.enrich_status = "ambiguous" =>
                       /\ cs # {}
                       /\ x.match_confidence \in {50, 80}
                       /\ x.match_confidence = SetMax({c.confidence : c \in cs})
                /\ x.enrich_status = "unmatched" => x.match_confidence = NULL /\ cs = {}
                /\ x.enrich_status = "pending" => cs = {}

\* C27: with enrich_pending(since=None, limit=k) called again and again on
\* an unchanging library, every listen that is pending is eventually
\* processed (its status is no longer pending).
C27_PendingEventuallyProcessed ==
    \A l \in 1..NInitListens :
        (listens[l].enrich_status = "pending") ~> (listens[l].enrich_status # "pending")

\* C29: the fingerprint encoding is unambiguous: two tuples get the same
\* uid only if their normalised artists, titles and albums and their
\* duration buckets are equal.
C29_UidEncodingUnambiguous ==
    (call.op = "make_track_uid_pair" /\ call.returned /\ call.out1 = call.out2) =>
        /\ normalize_text(call.x.artist) = normalize_text(call.y.artist)
        /\ normalize_text(call.x.title) = normalize_text(call.y.title)
        /\ normalize_text(call.x.album) = normalize_text(call.y.album)
        /\ duration_bucket(call.x.duration, DefaultTolerance)
               = duration_bucket(call.y.duration, DefaultTolerance)

C22_GapsOfRetainedSegments ==
    (call.op = "compute_catalog_gaps" /\ call.returned) =>
        LET obs == call.observed
            Prefixes == {obs[i].prefix : i \in DOMAIN obs}
            Obs(pf) == {obs[i].number : i \in {j \in DOMAIN obs : obs[j].prefix = pf}}
            Run(pf, a, b) ==
                /\ a \in Obs(pf) /\ b \in Obs(pf) /\ a <= b
                /\ \A x \in Obs(pf) : (a <= x /\ x < b) =>
                       \E y \in Obs(pf) : x < y /\ y <= x + call.max_gap
                /\ \A x \in Obs(pf) : x < a => a - x > call.max_gap
                /\ \A x \in Obs(pf) : x > b => x - b > call.max_gap
            Retained(pf, a, b) ==
                LET n == Cardinality({x \in Obs(pf) : a <= x /\ x <= b})
                IN  /\ Run(pf, a, b)
                    /\ n >= call.min_sequence_length
                    /\ n * call.min_coverage[2] >= call.min_coverage[1] * (b - a + 1)
            Expected == {<<pf, n>> \in Prefixes \X (1..MaxNumber) :
                            /\ n \notin Obs(pf)
                            /\ \E a, b \in 1..MaxNumber : Retained(pf, a, b) /\ a < n /\ n < b}
            out == call.out
        IN  /\ {<<out[i].prefix, out[i].number>> : i \in DOMAIN out} = Expected
            /\ \A i, j \in DOMAIN out :
                   i < j => \/ out[i].prefix = <<"A">> /\ out[j].prefix = <<"B">>
                            \/ out[i].prefix = out[j].prefix /\ out[i].number < out[j].number

\* C22 witness: a call with B1, B2, B4 supplied before A5, A3, A1,
\* min_sequence_length 3, max_gap 2 and min_coverage 0.6 (the segment A1..A5
\* is exactly at both thresholds) has returned the gaps A2, A4, B3.
C22_Witness ==
    /\ call.op = "compute_catalog_gaps"
    /\ call.returned
    /\ call.min_sequence_length = 3
    /\ call.max_gap = 2
    /\ call.min_coverage = <<6, 10>>
    /\ Len(call.observed) = 6
    /\ call.observed[1].prefix = <<"B">>
    /\ call.observed[4].number = 5
    /\ Len(call.out) = 3
    /\ call.out[1].number = 2 /\ call.out[1].prefix = <<"A">>
    /\ call.out[2].number = 4 /\ call.out[2].prefix = <<"A">>
    /\ call.out[3].number = 3 /\ call.out[3].prefix = <<"B">>

\* C23: a reported gap without a known release has as its catalog_id the
\* prefix followed by the number, zero-padded to the most frequent width
\* among the observed entries of its segment, and to the smallest of the
\* most frequent widths if there are several.
C23_GapPaddedToCommonWidth ==
    (call.op = "compute_catalog_gaps" /\ call.returned) =>
        \A i \in DOMAIN call.out :
            LET g == call.out[i]
                obs == call.observed
                Mine == {j \in DOMAIN obs : obs[j].prefix = g.prefix}
                \* the segment of g: the observed numbers around it that are
                \* linked by steps of at most max_gap
                Linked(a, b) == \A x \in {obs[j].number : j \in Mine} :
                                    (a <= x /\ x < b) =>
                                        \E k \in Mine : x < obs[k].number
                                                         /\ obs[k].number <= x + call.max_gap
                InSegment(n) == IF n < g.number THEN Linked(n, g.number + 1)
                                ELSE \E j \in Mine : obs[j].number < g.number
                                                      /\ Linked(obs[j].number, n)
                Seg == {j \in Mine : InSegment(obs[j].number)}
                Count(w) == Cardinality({j \in Seg : obs[j].width = w})
                Most == {w \in 1..2 : \A v \in 1..2 : Count(v) <= Count(w)}
                width == SetMin(Most)
                digits == IntToStr(g.number)
            IN  (~\E r \in call.releases : r.prefix = g.prefix /\ r.number = g.number) =>
                    g.catalog_id = g.prefix \o [k \in 1..(width - Len(digits)) |-> "0"] \o digits

C30_EachRowCountedOnce ==
    (call.op = "export_user" /\ call.pc = "returned") =>
        /\ call.exported + call.skipped = call.fetched
        /\ call.batches = call.submissions

====
